---- MODULE Spec2Model ----
(***************************************************************************)
(* Employee management dashboard (React front end): the employee task      *)
(* board and its status-update round trip, the session holder, the admin   *)
(* dashboard refresh and the HTTP client wrapper.                          *)
(***************************************************************************)
EXTENDS Integers, Sequences, FiniteSets, TLC

\* ------------------------------------------------------------------ bounds
\* number of tasks assigned to the employee
NumTasks == 2
\* update-status requests sent in one run
MaxUpdates == 2
\* requests of one dashboard that may be in flight together
MaxInFlight == 2
\* fetchDashboardData calls in one run
MaxRefreshes == 3
\* toasts shown in one run
MaxToasts == 4
\* the duration of a toast, in ticks of the clock
DurationTicks == 2
\* employees or tasks listed for bulk delete
NumItems == 2
\* bulk deletes started in one run
MaxBatches == 1

VARIABLES
    \* backend (external collaborator)
    backendTasks,     \* the employee's tasks as stored by the backend
    \* EmployeeDashboard
    sessionData,      \* userData.data: the profile stored in the session at login
    dataGiven,        \* whether the data prop is truthy
    mounted,          \* the mount effect has run
    employeeData,     \* useState(data || null)
    loading,          \* useState(false)
    error,            \* useState(null)
    activeView,       \* useState('overview')
    toastShown,       \* the type of the last toast shown through useToast()
    net,              \* requests of the dashboard that have not been received yet
    updatesSent,      \* number of update requests sent (bounded by MaxUpdates)
    \* TaskBoard
    searchTerm,       \* useState('')
    filterCategory,   \* useState('all')
    selectedTaskId,   \* useState(null), 0 is null
    dialog,           \* the window.confirm prompt that is open, if any
    \* browser
    path,             \* location.pathname
    authToken,        \* localStorage 'authToken'
    loggedInUser,     \* localStorage 'loggedInUser'
    alertShown,       \* the message of the last window.alert
    \* ApiService singleton
    token,            \* apiService.token
    \* AuthProvider
    userData,         \* useState(null): the role of the session, "null" without one
    authLoading,      \* useState(true)
    \* Login / Register forms
    isLoading,        \* useState(false) of the form that is mounted
    authNet,          \* login and registration calls that have not settled yet
    \* AdminDashboard
    adminMounted,     \* the mount effect has run
    dashboardData,    \* useState({ stats: null, employees: [], tasks: [] })
    adminLoading,     \* useState(true)
    adminError,       \* useState(null)
    adminNet,         \* calls of the admin dashboard that have not settled yet
    fetchesStarted,   \* number of fetchDashboardData calls so far (bounded)
    \* ApiService.request
    apiSent,          \* what was handed to fetch(url, config) for the call under way
    apiReply,         \* what fetch and response.json() produced for it
    apiResult,        \* how the call ended: a returned value or a thrown error
    \* TaskAssignmentModal / Register / ResetPassword
    form,             \* which form is open and the values of its fields
    formErrors,       \* what the form reports: errors / message, or the browser's bubble
    formLoading,      \* the form's loading / isLoading state
    formAlert,        \* the last window.alert of the form
    formSent,         \* the request of the form that is in flight
    clock,            \* the local date and the zone's offset from UTC, in hours
    \* the build's environment
    VITE_API_BASE_URL, \* import.meta.env.VITE_API_BASE_URL, Undefined when not set
    \* ToastService / useToast / ToastContainer
    toasts,           \* toastService.toasts: the ids of the toasts, in order
    sameArray,        \* the toasts state of useToast is the service's array itself
    timers,           \* per toast: ticks left on the timer of its Toast, -1 without one
    toastsShown,      \* how many toasts were shown
    \* Login
    login,            \* the Login form: email, password, isLoading, mounted
    loginCall,        \* the LoginHandler call that SubmitHandler awaits
    loginAlert,       \* the last window.alert of LoginHandler
    \* EmployeeManagement / TaskManagement bulk delete
    items,            \* the employees (tasks) the backend holds
    bulk,             \* the list's kind, selection, loading flag, last alert,
                      \* the batches started and the refreshes issued
    batch,            \* the Promise.all awaited by handleBulkDelete and its calls
    stale             \* delete requests still on their way that nothing awaits

empVars == <<backendTasks, sessionData, dataGiven, mounted, employeeData, loading,
             error, activeView, toastShown, net, updatesSent, searchTerm,
             filterCategory, selectedTaskId, dialog>>

authVars == <<path, authToken, loggedInUser, alertShown, token, userData, authLoading,
              isLoading, authNet>>

adminVars == <<adminMounted, dashboardData, adminLoading, adminError, adminNet,
               fetchesStarted>>

apiVars == <<apiSent, apiReply, apiResult>>

formVars == <<form, formErrors, formLoading, formAlert, formSent, clock>>

\* the components modelled on their own
toastVars == <<toasts, sameArray, timers, toastsShown>>

loginVars == <<login, loginCall, loginAlert>>

bulkVars == <<items, bulk, batch, stale>>

extraVars == <<formVars, VITE_API_BASE_URL, toastVars, loginVars, bulkVars>>

vars == <<empVars, authVars, adminVars, apiVars, extraVars>>

\* what the employee dashboard, the session and the admin dashboard never touch
outsideEmployee == <<authVars, adminVars, apiVars, extraVars>>
outsideAuth == <<empVars, adminVars, apiVars, extraVars>>
outsideAdmin == <<empVars, authVars, apiVars, extraVars>>
outsideApi == <<empVars, authVars, adminVars, extraVars>>
outsideForm == <<empVars, authVars, adminVars, apiVars, VITE_API_BASE_URL, toastVars, loginVars, bulkVars>>
outsideToast == <<empVars, authVars, adminVars, apiVars, formVars, VITE_API_BASE_URL, loginVars, bulkVars>>
outsideBulk == <<empVars, authVars, adminVars, apiVars, formVars, VITE_API_BASE_URL, toastVars,
                 loginVars>>
outsideLogin == <<empVars, authVars, adminVars, apiVars, formVars, VITE_API_BASE_URL, toastVars, bulkVars>>

\* ------------------------------------------------------------------ tasks
Tasks == 1..NumTasks
Statuses == {"newTask", "active", "completed", "failed"}

\* The title, description and category of a task never change: they are looked up
\* by the task's id. Text is a sequence of characters.
TitleOf(i) == IF i % 2 = 1 THEN <<"F", "i", "x">> ELSE <<"D", "o", "c">>
DescriptionOf(i) == IF i % 2 = 1 THEN <<"b", "u", "g">> ELSE <<"f", "i", "x">>
CategoryOf(i) == IF i % 2 = 1 THEN "dev" ELSE ""

\* The four boolean status flags of a task record.
Flags(n, a, c, f) == [newTask |-> n, active |-> a, completed |-> c, failed |-> f]
AllFlags == [newTask : BOOLEAN, active : BOOLEAN, completed : BOOLEAN, failed : BOOLEAN]
NoFlags == Flags(FALSE, FALSE, FALSE, FALSE)

\* A statusUpdate that leaves the newTask flag set whatever the target is.
StatusUpdateKeepsNew(newStatus) ==
    Flags(TRUE, newStatus = "active", newStatus = "completed", newStatus = "failed")

\* statusUpdate of handleTaskStatusUpdate: the body sent for a target status.
StatusUpdate(newStatus) ==
    [newTask   |-> newStatus = "newTask",
     active    |-> newStatus = "active",
     completed |-> newStatus = "completed",
     failed    |-> newStatus = "failed"]

TaskRecord(i, fl) ==
    [id |-> i, newTask |-> fl.newTask, active |-> fl.active,
     completed |-> fl.completed, failed |-> fl.failed]

FlagsOf(task) == Flags(task.newTask, task.active, task.completed, task.failed)

\* ------------------------------------------------------------------ TaskBoard
Lower(ch) ==
    CASE ch = "F" -> "f"
      [] ch = "D" -> "d"
      [] ch = "I" -> "i"
      [] OTHER -> ch

toLowerCase(s) == [k \in 1..Len(s) |-> Lower(s[k])]

\* String.prototype.includes
includes(hay, needle) ==
    \E k \in 0..(Len(hay) - Len(needle)) :
        \A j \in 1..Len(needle) : hay[k + j] = needle[j]

\* Values typed into the search box.
SearchTerms == {<<>>, <<"o">>}
BoardSearchTerms == SearchTerms \cup {<<"F", "I">>, <<"z">>}

MatchesFilter(task, term, cat) ==
    LET matchesSearch ==
            \/ includes(toLowerCase(TitleOf(task.id)), toLowerCase(term))
            \/ includes(toLowerCase(DescriptionOf(task.id)), toLowerCase(term))
        matchesCategory == cat = "all" \/ CategoryOf(task.id) = cat
    IN  matchesSearch /\ matchesCategory

filteredTasks(tasks, term, cat) ==
    SelectSeq(tasks, LAMBDA t : MatchesFilter(t, term, cat))

\* categories: the unique truthy categories of the tasks
categories(tasks) == {CategoryOf(tasks[k].id) : k \in 1..Len(tasks)} \ {""}

EmptyColumns == [newTask |-> <<>>, active |-> <<>>, completed |-> <<>>, failed |-> <<>>]

\* The chain written as four independent ifs, without the default.
PlaceTaskNoElse(organized, task) ==
    LET o1 == IF task.newTask THEN [organized EXCEPT !.newTask = Append(@, task)]
              ELSE organized
        o2 == IF task.active THEN [o1 EXCEPT !.active = Append(@, task)] ELSE o1
        o3 == IF task.completed THEN [o2 EXCEPT !.completed = Append(@, task)] ELSE o2
    IN  IF task.failed THEN [o3 EXCEPT !.failed = Append(@, task)] ELSE o3

\* One iteration of the forEach of taskColumns: the if / else-if chain.
PlaceTask(organized, task) ==
    IF task.newTask THEN [organized EXCEPT !.newTask = Append(@, task)]
    ELSE IF task.active THEN [organized EXCEPT !.active = Append(@, task)]
    ELSE IF task.completed THEN [organized EXCEPT !.completed = Append(@, task)]
    ELSE IF task.failed THEN [organized EXCEPT !.failed = Append(@, task)]
    ELSE [organized EXCEPT !.newTask = Append(@, task)]

RECURSIVE Organize(_, _)
Organize(organized, tasks) ==
    IF tasks = <<>> THEN organized
    ELSE Organize(PlaceTask(organized, Head(tasks)), Tail(tasks))

taskColumns(tasks, term, cat) == Organize(EmptyColumns, filteredTasks(tasks, term, cat))

\* "Reset to New" rendered without its column.id === 'failed' guard.
ColumnButtonsUnguardedReset(column) ==
    CASE column = "newTask"   -> {"active", "failed"}
      [] column = "active"    -> {"completed", "failed", "newTask"}
      [] column = "completed" -> {"active", "newTask"}
      [] column = "failed"    -> {"active", "newTask"}

\* The target statuses of the buttons rendered for a card of a column.
ColumnButtons(column) ==
    CASE column = "newTask"   -> {"active", "failed"}
      [] column = "active"    -> {"completed", "failed", "newTask"}
      [] column = "completed" -> {"active"}
      [] column = "failed"    -> {"active", "newTask"}

\* Decline and Mark Failed ask a confirmation of their own before handleStatusChange.
HasOwnConfirm(column, target) ==
    target = "failed" /\ column \in {"newTask", "active"}

\* ------------------------------------------------------------------ EmployeeDashboard
NoError == "null"
FetchError == "Failed to load employee data. Please refresh the page."
NoProfile == [present |-> FALSE, tasks |-> <<>>]
Profile(tasks) == [present |-> TRUE, tasks |-> tasks]
NoDialog == [kind |-> "none", task |-> 0, target |-> ""]
NoToast == "none"

\* The render guards of EmployeeDashboard (the session is an employee's).
Screen(ld, err, data) ==
    IF ld /\ ~data.present THEN "spinner"
    ELSE IF err # NoError THEN "errorPage"
    ELSE IF ~data.present THEN "noData"
    ELSE "dashboard"

\* TaskBoard is rendered inside the dashboard in the tasks view.
BoardMounted(ld, err, data, view) ==
    Screen(ld, err, data) = "dashboard" /\ view = "tasks"

\* Buttons that ignore the loading flag.
InteractiveWhileLoading == mounted /\ dialog = NoDialog

\* The loading overlay covers the page; a confirm prompt blocks the event loop.
Interactive == mounted /\ dialog = NoDialog /\ ~loading

UpdateRequest(taskId, newStatus) ==
    [kind |-> "update", cont |-> "update", task |-> taskId, newStatus |-> newStatus,
     body |-> StatusUpdate(newStatus), stage |-> "sent", profile |-> <<>>]

\* cont: "fetch" for fetchEmployeeData called alone, "afterUpdate" when it is
\* awaited by handleTaskStatusUpdate (which then shows the toast for its taskId and
\* newStatus).
FetchRequest(cont, taskId, newStatus) ==
    [kind |-> "fetch", cont |-> cont, task |-> taskId, newStatus |-> newStatus,
     body |-> NoFlags, stage |-> "sent", profile |-> <<>>]

RemoveAt(s, k) == [j \in 1..(Len(s) - 1) |-> IF j < k THEN s[j] ELSE s[j + 1]]

\* The state of TaskBoard is lost when it is unmounted.
BoardKept(ld, err, data, view) ==
    IF BoardMounted(ld, err, data, view)
    THEN UNCHANGED <<searchTerm, filterCategory, selectedTaskId>>
    ELSE searchTerm' = <<>> /\ filterCategory' = "all" /\ selectedTaskId' = 0

\* fetchEmployeeData up to its await: setLoading(true), setError(null), the request.
FetchStart(queue, cont, taskId, newStatus) ==
    /\ Len(queue) < MaxInFlight
    /\ loading' = TRUE
    /\ error' = NoError
    /\ net' = Append(queue, FetchRequest(cont, taskId, newStatus))
    /\ BoardKept(TRUE, NoError, employeeData, activeView)

\* useEffect(() => { if (!data && userData.role === 'employee') fetchEmployeeData() })
MountEffect ==
    /\ ~mounted
    /\ mounted' = TRUE
    /\ IF ~dataGiven
       THEN /\ FetchStart(net, "fetch", 0, "")
            /\ UNCHANGED <<employeeData, toastShown>>
       ELSE UNCHANGED <<employeeData, loading, error, net, toastShown,
                        searchTerm, filterCategory, selectedTaskId>>
    /\ UNCHANGED <<outsideEmployee, backendTasks, sessionData, dataGiven, activeView, updatesSent, dialog>>

\* A full page load: the component tree is built anew from the stored session.
Reload ==
    /\ mounted' = FALSE
    /\ employeeData' = IF dataGiven THEN Profile(sessionData) ELSE NoProfile
    /\ loading' = FALSE
    /\ error' = NoError
    /\ activeView' = "overview"
    /\ toastShown' = NoToast
    /\ net' = <<>>
    /\ searchTerm' = <<>> /\ filterCategory' = "all" /\ selectedTaskId' = 0
    /\ dialog' = NoDialog
    /\ UNCHANGED <<outsideEmployee, backendTasks, sessionData, dataGiven, updatesSent>>

\* refreshData: the header's refresh button, "Try Again" and "Refresh".
RefreshData ==
    /\ mounted /\ dialog = NoDialog
    /\ \/ Screen(loading, error, employeeData) = "dashboard" /\ ~loading
       \/ Screen(loading, error, employeeData) \in {"errorPage", "noData"}
    /\ IF dataGiven
       THEN Reload
       ELSE /\ FetchStart(net, "fetch", 0, "")
            /\ UNCHANGED <<outsideEmployee, backendTasks, sessionData, dataGiven, mounted, employeeData,
                           activeView, toastShown, updatesSent, dialog>>

SetActiveView(view) ==
    /\ Interactive
    /\ Screen(loading, error, employeeData) = "dashboard"
    /\ view # activeView
    /\ activeView' = view
    /\ BoardKept(loading, error, employeeData, view)
    /\ UNCHANGED <<outsideEmployee, backendTasks, sessionData, dataGiven, mounted, employeeData, loading,
                   error, toastShown, net, updatesSent, dialog>>

\* ------------------------------------------------------------------ TaskBoard handlers
Columns == taskColumns(employeeData.tasks, searchTerm, filterCategory)

BoardUsable ==
    Interactive /\ BoardMounted(loading, error, employeeData, activeView)

\* The cards rendered: <<column, position in the column>>.
Cards(cols) == {ck \in Statuses \X Tasks : ck[2] <= Len(cols[ck[1]])}

\* onClick of a task card: toggles the expanded card.
SelectTask ==
    /\ BoardUsable
    /\ LET cols == Columns
       IN  \E ck \in Cards(cols) :
              LET task == cols[ck[1]][ck[2]]
              IN  selectedTaskId' = IF selectedTaskId = task.id THEN 0 ELSE task.id
    /\ UNCHANGED <<outsideEmployee, backendTasks, sessionData, dataGiven, mounted, employeeData, loading,
                   error, activeView, toastShown, net, updatesSent, searchTerm,
                   filterCategory, dialog>>

SetSearchTerm(term) ==
    /\ BoardUsable
    /\ term # searchTerm
    /\ searchTerm' = term
    /\ UNCHANGED <<outsideEmployee, backendTasks, sessionData, dataGiven, mounted, employeeData, loading,
                   error, activeView, toastShown, net, updatesSent, filterCategory,
                   selectedTaskId, dialog>>

SetFilterCategory(cat) ==
    /\ BoardUsable
    /\ cat \in {"all"} \cup categories(employeeData.tasks)
    /\ cat # filterCategory
    /\ filterCategory' = cat
    /\ UNCHANGED <<outsideEmployee, backendTasks, sessionData, dataGiven, mounted, employeeData, loading,
                   error, activeView, toastShown, net, updatesSent, searchTerm,
                   selectedTaskId, dialog>>

\* The buttons rendered (and enabled): <<column, position, target status>>, those of
\* the expanded card.
Buttons(cols) ==
    {b \in Statuses \X Tasks \X Statuses :
        /\ <<b[1], b[2]>> \in Cards(cols)
        /\ selectedTaskId = cols[b[1]][b[2]].id
        /\ b[3] \in ColumnButtons(b[1])}

\* handleTaskStatusUpdate up to its first await.
UpdateStart(taskId, newStatus) ==
    /\ Len(net) < MaxInFlight
    /\ loading' = TRUE
    /\ net' = Append(net, UpdateRequest(taskId, newStatus))
    /\ updatesSent' = updatesSent + 1

\* A handleStatusChange that calls onTaskUpdate without asking.
ClickButtonNoConfirm ==
    /\ BoardUsable
    /\ updatesSent < MaxUpdates
    /\ LET cols == Columns
       IN  \E b \in Buttons(cols) : UpdateStart(cols[b[1]][b[2]].id, b[3])
    /\ UNCHANGED <<outsideEmployee, backendTasks, sessionData, dataGiven, mounted, employeeData, error,
                   activeView, toastShown, searchTerm, filterCategory, selectedTaskId,
                   dialog>>

\* onClick of an action button: the first window.confirm it opens.
ClickButton ==
    /\ BoardUsable
    /\ updatesSent < MaxUpdates
    /\ LET cols == Columns
       IN  \E b \in Buttons(cols) :
              dialog' = [kind |-> IF HasOwnConfirm(b[1], b[3]) THEN "own" ELSE "confirm",
                         task |-> cols[b[1]][b[2]].id, target |-> b[3]]
    /\ UNCHANGED <<outsideEmployee, backendTasks, sessionData, dataGiven, mounted, employeeData, loading,
                   error, activeView, toastShown, net, updatesSent, searchTerm,
                   filterCategory, selectedTaskId>>

\* window.confirm returns true.
ConfirmOk ==
    /\ dialog # NoDialog
    /\ IF dialog.kind = "own"
       THEN /\ dialog' = [dialog EXCEPT !.kind = "confirm"]
            /\ UNCHANGED <<loading, net, updatesSent>>
       ELSE /\ dialog' = NoDialog
            /\ UpdateStart(dialog.task, dialog.target)
    /\ UNCHANGED <<outsideEmployee, backendTasks, sessionData, dataGiven, mounted, employeeData, error,
                   activeView, toastShown, searchTerm, filterCategory, selectedTaskId>>

\* window.confirm returns false.
ConfirmCancel ==
    /\ dialog # NoDialog
    /\ dialog' = NoDialog
    /\ UNCHANGED <<outsideEmployee, backendTasks, sessionData, dataGiven, mounted, employeeData, loading,
                   error, activeView, toastShown, net, updatesSent, searchTerm,
                   filterCategory, selectedTaskId>>

\* ------------------------------------------------------------------ backend
SetFlags(tasks, taskId, body) ==
    [k \in 1..Len(tasks) |->
        IF tasks[k].id = taskId THEN TaskRecord(taskId, body) ELSE tasks[k]]

\* PUT /employee/task/:id. The backend stores the flags ("ok"), answers non-2xx
\* ("rejected"), or stores them and the response is lost on the way ("lost").
ServerUpdate(k, outcome) ==
    /\ k \in 1..Len(net)
    /\ net[k].kind = "update" /\ net[k].stage = "sent"
    /\ backendTasks' = IF outcome = "rejected" THEN backendTasks
                       ELSE SetFlags(backendTasks, net[k].task, net[k].body)
    /\ net' = [net EXCEPT ![k].stage = IF outcome = "ok" THEN "ok" ELSE "fail"]
    /\ UNCHANGED <<outsideEmployee, sessionData, dataGiven, mounted, employeeData, loading, error,
                   activeView, toastShown, updatesSent, searchTerm, filterCategory,
                   selectedTaskId, dialog>>

\* GET /employee/profile
ServerProfile(k, ok) ==
    /\ k \in 1..Len(net)
    /\ net[k].kind = "fetch" /\ net[k].stage = "sent"
    /\ net' = [net EXCEPT ![k].stage = IF ok THEN "ok" ELSE "fail",
                          ![k].profile = IF ok THEN backendTasks ELSE <<>>]
    /\ UNCHANGED <<outsideEmployee, backendTasks, sessionData, dataGiven, mounted, employeeData, loading,
                   error, activeView, toastShown, updatesSent, searchTerm,
                   filterCategory, selectedTaskId, dialog>>

\* ------------------------------------------------------------------ continuations
\* A handleTaskStatusUpdate that re-fetches in its finally block, on failure too.
UpdateSettledRefetch(k) ==
    /\ dialog = NoDialog
    /\ k \in 1..Len(net)
    /\ net[k].kind = "update" /\ net[k].stage # "sent"
    /\ FetchStart(RemoveAt(net, k), "afterUpdate", net[k].task, net[k].newStatus)
    /\ toastShown' = IF net[k].stage = "ok" THEN toastShown ELSE "error"
    /\ UNCHANGED <<outsideEmployee, backendTasks, sessionData, dataGiven, mounted, employeeData,
                   activeView, updatesSent, dialog>>

\* handleTaskStatusUpdate after `await apiService.updateEmployeeTaskStatus(...)`.
UpdateSettled(k) ==
    /\ dialog = NoDialog
    /\ k \in 1..Len(net)
    /\ net[k].kind = "update" /\ net[k].stage # "sent"
    /\ IF net[k].stage = "ok"
       THEN /\ FetchStart(RemoveAt(net, k), "afterUpdate", net[k].task, net[k].newStatus)
            /\ UNCHANGED toastShown
       ELSE /\ toastShown' = "error"
            /\ loading' = FALSE
            /\ net' = RemoveAt(net, k)
            /\ UNCHANGED <<error, searchTerm, filterCategory, selectedTaskId>>
    /\ UNCHANGED <<outsideEmployee, backendTasks, sessionData, dataGiven, mounted, employeeData,
                   activeView, updatesSent, dialog>>

\* A fetchEmployeeData that drops the profile it received.
AppliedProfileDropped(request, data) == data

\* setEmployeeData(profile), reached only when the request resolved.
AppliedProfile(request, data) ==
    IF request.stage = "ok" THEN Profile(request.profile) ELSE data

\* A fetchEmployeeData that calls itself again when the request rejected.
FetchSettledRetry(k) ==
    /\ dialog = NoDialog
    /\ k \in 1..Len(net)
    /\ net[k].kind = "fetch" /\ net[k].stage # "sent"
    /\ employeeData' = AppliedProfile(net[k], employeeData)
    /\ toastShown' = IF net[k].cont = "afterUpdate" THEN "success" ELSE toastShown
    /\ IF net[k].stage = "ok"
       THEN /\ loading' = FALSE
            /\ net' = RemoveAt(net, k)
            /\ UNCHANGED error
       ELSE /\ loading' = TRUE
            /\ error' = NoError
            /\ net' = Append(RemoveAt(net, k), FetchRequest("fetch", 0, ""))
    /\ BoardKept(loading', error', employeeData', activeView)
    /\ UNCHANGED <<outsideEmployee, backendTasks, sessionData, dataGiven, mounted, activeView,
                   updatesSent, dialog>>

\* fetchEmployeeData after `await apiService.getEmployeeProfile()`, and then, when
\* handleTaskStatusUpdate awaited it, the rest of handleTaskStatusUpdate.
FetchSettled(k) ==
    /\ dialog = NoDialog
    /\ k \in 1..Len(net)
    /\ net[k].kind = "fetch" /\ net[k].stage # "sent"
    /\ employeeData' = AppliedProfile(net[k], employeeData)
    /\ error' = IF net[k].stage = "ok" THEN error ELSE FetchError
    /\ loading' = FALSE
    /\ toastShown' = IF net[k].cont = "afterUpdate"
                     THEN "success"
                     ELSE toastShown
    /\ net' = RemoveAt(net, k)
    /\ BoardKept(loading', error', employeeData', activeView)
    /\ UNCHANGED <<outsideEmployee, backendTasks, sessionData, dataGiven, mounted, activeView,
                   updatesSent, dialog>>

\* ------------------------------------------------------------------ specification
\* A user of that role is signed in and the dashboard route of the role is shown.
SignedIn(role) ==
    /\ path = (IF role = "admin" THEN "/admin/dashboard" ELSE "/employee/dashboard")
    /\ authToken = (IF role = "admin" THEN "jwt-admin" ELSE "jwt-employee")
    /\ token = authToken
    /\ loggedInUser = role /\ userData = role
    /\ authLoading = FALSE /\ isLoading = FALSE
    /\ authNet = <<>> /\ alertShown = "none"

\* The fields of the three forms as their components create them
\* (strings are sequences of characters, taskDate 0 is the empty date).
NoForm ==
    [kind |-> "none",
     taskTitle |-> <<>>, taskDescription |-> <<>>, taskDate |-> 0,
     category |-> <<>>, assignedTo |-> "", editingTask |-> FALSE,
     firstName |-> <<>>, email |-> <<>>, password |-> <<>>,
     confirmPassword |-> <<>>, userType |-> "employee", adminKey |-> <<>>,
     token |-> "", newPassword |-> <<>>]

\* No form is open.
FormIdle ==
    /\ form = NoForm
    /\ formErrors = "none"
    /\ formLoading = FALSE
    /\ formAlert = "none"
    /\ formSent = "none"
    /\ clock = [today |-> 0, offset |-> 0]

Undefined == "undefined"

ToastIds == 1 .. MaxToasts

\* new ToastService() and useState([]): no toast, no Toast mounted.
ToastIdle ==
    /\ toasts = <<>>
    /\ sameArray = FALSE
    /\ timers = [id \in ToastIds |-> -1]
    /\ toastsShown = 0

\* The Login form as useState creates it, nothing submitted.
NoCall == [busy |-> FALSE, email |-> <<>>, password |-> <<>>]

LoginIdle ==
    /\ login = [email |-> <<>>, password |-> <<>>, isLoading |-> FALSE, mounted |-> TRUE]
    /\ loginCall = NoCall
    /\ loginAlert = "none"

ItemIds == 1 .. NumItems

NoBatch == [awaiting |-> FALSE, calls |-> [id \in ItemIds |-> "none"]]

\* No list with a selection is mounted.
BulkIdle ==
    /\ items = {}
    /\ bulk = [kind |-> "none", selected |-> {}, loading |-> FALSE, alert |-> "none",
               batches |-> 0, refreshes |-> 0]
    /\ batch = NoBatch
    /\ stale = {}

\* The components modelled on their own are idle: no form is open, no
\* toast was shown, nothing is selected and the build has no backend URL
\* configured.
OthersIdle ==
    /\ FormIdle
    /\ ToastIdle
    /\ LoginIdle
    /\ BulkIdle

ExtraIdle ==
    /\ OthersIdle
    /\ VITE_API_BASE_URL = Undefined

\* No call of the HTTP client is followed.
ApiIdle ==
    /\ apiSent = [busy |-> FALSE, url |-> <<>>, method |-> "", body |-> FALSE,
                  headers |-> [h \in {"Content-Type", "Authorization", "X-Request"} |-> "absent"]]
    /\ apiReply = [kind |-> "none", status |-> 0,
                   body |-> [json |-> FALSE, message |-> "absent"]]
    /\ apiResult = [kind |-> "idle", data |-> [json |-> FALSE, message |-> "absent"],
                    message |-> ""]

\* The admin dashboard is not mounted.
AdminIdle ==
    /\ adminMounted = FALSE
    /\ dashboardData = [stats |-> [kind |-> "null", call |-> 0],
                        employees |-> [kind |-> "empty", call |-> 0],
                        tasks |-> [kind |-> "empty", call |-> 0]]
    /\ adminLoading = TRUE
    /\ adminError = "null"
    /\ adminNet = <<>>
    /\ fetchesStarted = 0

OneHotFlags == {StatusUpdate(s) : s \in Statuses}

TaskLists(flagSet) ==
    {[i \in Tasks |-> TaskRecord(i, f[i])] : f \in [Tasks -> flagSet]}

EmployeeInit(flagSet) ==
    /\ ExtraIdle
    /\ ApiIdle
    /\ SignedIn("employee")
    /\ AdminIdle
    /\ backendTasks \in TaskLists(flagSet)
    /\ dataGiven \in BOOLEAN
    /\ sessionData = IF dataGiven THEN backendTasks ELSE <<>>
    /\ mounted = FALSE
    /\ employeeData = IF dataGiven THEN Profile(sessionData) ELSE NoProfile
    /\ loading = FALSE
    /\ error = NoError
    /\ activeView = "overview"
    /\ toastShown = NoToast
    /\ net = <<>>
    /\ updatesSent = 0
    /\ searchTerm = <<>>
    /\ filterCategory = "all"
    /\ selectedTaskId = 0
    /\ dialog = NoDialog

\* The backend keeps exactly one flag set.
Init == EmployeeInit(OneHotFlags)

Next ==
    \/ MountEffect
    \/ RefreshData
    \/ \E view \in {"overview", "tasks", "performance"} : SetActiveView(view)
    \/ SelectTask
    \/ \E term \in SearchTerms : SetSearchTerm(term)
    \/ \E cat \in {"all", "dev"} : SetFilterCategory(cat)
    \/ ClickButton
    \/ ConfirmOk
    \/ ConfirmCancel
    \/ \E k \in 1..MaxInFlight, outcome \in {"ok", "rejected", "lost"} :
          ServerUpdate(k, outcome)
    \/ \E k \in 1..MaxInFlight, ok \in BOOLEAN : ServerProfile(k, ok)
    \/ \E k \in 1..MaxInFlight : UpdateSettled(k)
    \/ \E k \in 1..MaxInFlight : FetchSettled(k)

Spec == Init /\ [][Next]_vars

\* The task board alone, over a profile whose tasks carry any combination of flags.
BoardInit ==
    /\ ExtraIdle
    /\ ApiIdle
    /\ SignedIn("employee")
    /\ AdminIdle
    /\ backendTasks \in TaskLists(AllFlags)
    /\ dataGiven = FALSE
    /\ sessionData = <<>>
    /\ mounted = TRUE
    /\ employeeData = Profile(backendTasks)
    /\ loading = FALSE
    /\ error = NoError
    /\ activeView = "tasks"
    /\ toastShown = NoToast
    /\ net = <<>>
    /\ updatesSent = 0
    /\ searchTerm = <<>>
    /\ filterCategory = "all"
    /\ selectedTaskId = 0
    /\ dialog = NoDialog

BoardNext ==
    \/ SelectTask
    \/ \E term \in BoardSearchTerms : SetSearchTerm(term)
    \/ \E cat \in {"all", "dev"} : SetFilterCategory(cat)
    \/ ClickButton
    \/ ConfirmOk
    \/ ConfirmCancel

BoardSpec == BoardInit /\ [][BoardNext]_vars

\* ================================================================== session
\* src/src/App.jsx, src/src/context/AuthProvider.jsx, ApiService of ApiUtils.js
Null == "null"
Roles == {"admin", "employee"}

AuthRoutes == {"/login", "/register", "/forgot-password", "/reset-password"}
ProtectedRoutes == {"/admin/dashboard", "/employee/dashboard"}
\* "/" and one path that matches no route ("*")
DefaultRoutes == {"/", "/unknown"}
Paths == AuthRoutes \cup ProtectedRoutes \cup DefaultRoutes

\* <ProtectedRoute requiredRole=...> of each protected route
RequiredRole(p) == IF p = "/admin/dashboard" THEN "admin" ELSE "employee"

\* The token the backend issues to a user of that role.
TokenOf(role) == IF role = "admin" THEN "jwt-admin" ELSE "jwt-employee"

\* ProtectedRoute: what it renders.
ProtectedRoute(ud, ld, requiredRole) ==
    IF ld THEN "spinner"
    ELSE IF ud = Null THEN "navigate"
    ELSE IF ud # requiredRole THEN "navigate"
    ELSE "children"

AuthLayoutTargetSwapped(ud) ==
    IF ud = "admin" THEN "/employee/dashboard"
    ELSE IF ud = "employee" THEN "/admin/dashboard"
    ELSE Null

\* AuthLayout's effect: where it navigates to, Null when it does not navigate.
AuthLayoutTarget(ud) ==
    IF ud = "admin" THEN "/admin/dashboard"
    ELSE IF ud = "employee" THEN "/employee/dashboard"
    ELSE Null

\* AuthLayout renders its children (the form) only without a session.
FormRendered(p) == p \in AuthRoutes /\ userData = Null

DashboardRendered ==
    /\ path \in ProtectedRoutes
    /\ ProtectedRoute(userData, authLoading, RequiredRole(path)) = "children"

\* The first render guards of AdminDashboard and EmployeeDashboard.
RoleGuard(ud, ld, requiredRole) ==
    IF ld THEN "authenticating"
    ELSE IF ud = Null \/ ud # requiredRole THEN "accessDenied"
    ELSE "dashboard"

\* What a route shows: the element of ProtectedRoute, or below it the dashboard's
\* own guard; the form or nothing under AuthLayout; a <Navigate> on the others.
Shown(p, ud, ld) ==
    IF p \in ProtectedRoutes
    THEN IF ProtectedRoute(ud, ld, RequiredRole(p)) = "children"
         THEN RoleGuard(ud, ld, RequiredRole(p))
         ELSE ProtectedRoute(ud, ld, RequiredRole(p))
    ELSE IF p \in AuthRoutes
    THEN (IF ud = Null THEN "form" ELSE "nothing")
    ELSE "navigate"

\* A render or effect that navigates by itself is pending.
RedirectPending ==
    \/ path \in DefaultRoutes
    \/ path \in ProtectedRoutes
       /\ ProtectedRoute(userData, authLoading, RequiredRole(path)) = "navigate"
    \/ path \in AuthRoutes /\ userData # Null /\ AuthLayoutTarget(userData) # Null

\* Nothing runs by itself: the page waits for the user or for a response.
Settled == ~authLoading /\ ~RedirectPending

\* Calls whose form has been unmounted settle without touching a form.
Orphaned(calls) == [k \in 1..Len(calls) |-> [calls[k] EXCEPT !.live = FALSE]]

\* A mount effect whose catch block only logs.
HydrateNoCleanup ==
    /\ authLoading
    /\ userData' = IF authToken # Null /\ loggedInUser \notin {Null, "", "garbage"}
                   THEN loggedInUser ELSE userData
    /\ authLoading' = FALSE
    /\ UNCHANGED <<outsideAuth, path, alertShown, isLoading, authNet, authToken,
                   loggedInUser, token>>

\* AuthProvider's mount effect: take the session from storage.
Hydrate ==
    /\ authLoading
    /\ IF authToken # Null /\ loggedInUser \notin {Null, ""}
       THEN IF loggedInUser = "garbage"
            THEN /\ authToken' = Null /\ loggedInUser' = Null /\ token' = Null
                 /\ UNCHANGED userData
            ELSE /\ userData' = loggedInUser
                 /\ UNCHANGED <<authToken, loggedInUser, token>>
       ELSE UNCHANGED <<authToken, loggedInUser, token, userData>>
    /\ authLoading' = FALSE
    /\ UNCHANGED <<outsideAuth, path, alertShown, isLoading, authNet>>

\* <Route path="/"> and <Route path="*">: <Navigate to="/login" replace />
DefaultRoute ==
    /\ path \in DefaultRoutes
    /\ path' = "/login"
    /\ isLoading' = FALSE
    /\ UNCHANGED <<outsideAuth, authToken, loggedInUser, alertShown, token, userData,
                   authLoading, authNet>>

\* ProtectedRoute returning <Navigate to="/login" replace />
ProtectedRouteNavigate ==
    /\ path \in ProtectedRoutes
    /\ ProtectedRoute(userData, authLoading, RequiredRole(path)) = "navigate"
    /\ path' = "/login"
    /\ isLoading' = FALSE
    /\ UNCHANGED <<outsideAuth, authToken, loggedInUser, alertShown, token, userData,
                   authLoading, authNet>>

\* AuthLayout's effect on userData
AuthLayoutEffect ==
    /\ path \in AuthRoutes
    /\ userData # Null
    /\ AuthLayoutTarget(userData) # Null
    /\ path' = AuthLayoutTarget(userData)
    /\ isLoading' = FALSE
    /\ authNet' = Orphaned(authNet)
    /\ UNCHANGED <<outsideAuth, authToken, loggedInUser, alertShown, token, userData,
                   authLoading>>

\* <Link to=...> of the forms
Links(p) == IF p = "/login" THEN {"/forgot-password", "/register"} ELSE {"/login"}

\* The user follows a link of the form shown: client-side navigation.
FollowLink(p) ==
    /\ Settled
    /\ FormRendered(path)
    /\ p \in Links(path)
    /\ path' = p
    /\ isLoading' = FALSE
    /\ authNet' = Orphaned(authNet)
    /\ UNCHANGED <<outsideAuth, authToken, loggedInUser, alertShown, token, userData,
                   authLoading>>

\* A full page load of p: module state is rebuilt, new ApiService() reads storage.
PageLoad(p) ==
    /\ path' = p
    /\ token' = authToken'
    /\ userData' = Null
    /\ authLoading' = TRUE
    /\ isLoading' = FALSE
    /\ authNet' = <<>>
    /\ alertShown' = "none"

\* The user opens or reloads a URL.
Visit(p) ==
    /\ Settled
    /\ UNCHANGED <<outsideAuth, authToken, loggedInUser>>
    /\ PageLoad(p)

\* The form of each call: Login's SubmitHandler, Register's handleSubmit.
FormOf(kind) == IF kind = "login" THEN "/login" ELSE "/register"

AuthKinds == {"login", "registerEmployee", "registerAdmin"}

\* SubmitHandler / handleSubmit up to the await of the request
Submit(kind) ==
    /\ Settled
    /\ FormRendered(path)
    /\ path = FormOf(kind)
    /\ ~isLoading
    /\ Len(authNet) < MaxInFlight
    /\ isLoading' = TRUE
    /\ authNet' = Append(authNet, [kind |-> kind, live |-> TRUE])
    /\ UNCHANGED <<outsideAuth, path, authToken, loggedInUser, alertShown, token, userData,
                   authLoading>>

\* What the backend may answer: success with the user's role, a 2xx body with
\* success false, or a non-2xx status / network failure (request throws).
AuthOutcomes(kind) ==
    {"unsuccessful", "rejected"} \cup
    (IF kind = "login" THEN Roles
     ELSE IF kind = "registerAdmin" THEN {"admin"} ELSE {"employee"})

\* apiService.login / registerEmployee / registerAdmin: setToken on success
SetToken(outcome) ==
    IF outcome \in Roles
    THEN token' = TokenOf(outcome) /\ authToken' = TokenOf(outcome)
    ELSE UNCHANGED <<token, authToken>>

\* A login / registration that sets the session without persisting it.
AuthSettledNotPersisted(k, outcome) ==
    /\ Settled
    /\ k \in 1..Len(authNet)
    /\ outcome \in AuthOutcomes(authNet[k].kind)
    /\ SetToken(outcome)
    /\ userData' = IF outcome \in Roles THEN outcome ELSE userData
    /\ alertShown' = IF outcome \notin Roles THEN "failed"
                     ELSE IF authNet[k].kind = "login" THEN alertShown ELSE "registered"
    /\ isLoading' = IF authNet[k].live THEN FALSE ELSE isLoading
    /\ authNet' = RemoveAt(authNet, k)
    /\ UNCHANGED <<outsideAuth, path, authLoading, loggedInUser>>

\* The response of call k arrives: apiService.login, AuthProvider.login,
\* LoginHandler and the form's finally block (the same for registration).
AuthSettled(k, outcome) ==
    /\ Settled
    /\ k \in 1..Len(authNet)
    /\ outcome \in AuthOutcomes(authNet[k].kind)
    /\ SetToken(outcome)
    /\ IF outcome \in Roles
       THEN /\ userData' = outcome
            /\ loggedInUser' = outcome
            /\ alertShown' = IF authNet[k].kind = "login" THEN alertShown ELSE "registered"
       ELSE /\ alertShown' = "failed"
            /\ UNCHANGED <<userData, loggedInUser>>
    /\ isLoading' = IF authNet[k].live THEN FALSE ELSE isLoading
    /\ authNet' = RemoveAt(authNet, k)
    /\ UNCHANGED <<outsideAuth, path, authLoading>>

ClearSessionKeepToken ==
    /\ UNCHANGED authToken
    /\ loggedInUser' = Null

\* AuthProvider.logout with apiService.logout: what is left in storage.
ClearSession ==
    /\ authToken' = Null
    /\ loggedInUser' = Null

\* handleLogout: logout(), then window.location.href = '/login'
Logout ==
    /\ Settled
    /\ DashboardRendered
    /\ ClearSession
    /\ PageLoad("/login")
    /\ UNCHANGED outsideAuth

\* The employee dashboard is not mounted.
EmployeeIdle ==
    /\ backendTasks = <<>> /\ dataGiven = FALSE /\ sessionData = <<>>
    /\ mounted = FALSE /\ employeeData = NoProfile /\ loading = FALSE
    /\ error = NoError /\ activeView = "overview" /\ toastShown = NoToast
    /\ net = <<>> /\ updatesSent = 0
    /\ searchTerm = <<>> /\ filterCategory = "all" /\ selectedTaskId = 0
    /\ dialog = NoDialog

\* What a browser may hold in storage when the page is opened.
StoredTokens == {Null} \cup {TokenOf(r) : r \in Roles}
StoredUsers == {Null, "", "garbage", "manager"} \cup Roles

AuthInit ==
    /\ ExtraIdle
    /\ ApiIdle
    /\ EmployeeIdle
    /\ AdminIdle
    /\ path \in Paths
    /\ authToken \in StoredTokens
    /\ loggedInUser \in StoredUsers
    /\ token = authToken
    /\ userData = Null
    /\ authLoading = TRUE
    /\ isLoading = FALSE
    /\ authNet = <<>>
    /\ alertShown = "none"

AuthNext ==
    \/ Hydrate
    \/ DefaultRoute
    \/ ProtectedRouteNavigate
    \/ AuthLayoutEffect
    \/ \E p \in AuthRoutes : FollowLink(p)
    \/ \E p \in Paths : Visit(p)
    \/ \E kind \in AuthKinds : Submit(kind)
    \/ \E k \in 1..MaxInFlight, outcome \in Roles \cup {"unsuccessful", "rejected"} :
          AuthSettled(k, outcome)
    \/ Logout

AuthSpec == AuthInit /\ [][AuthNext]_vars

\* The application opened in a browser that holds nothing of it yet.
FreshInit ==
    /\ AuthInit
    /\ authToken = Null
    /\ loggedInUser = Null

FreshSpec == FreshInit /\ [][AuthNext]_vars

\* Header's "Log Out" button: loggedInUser is overwritten with '' and the
\* page reloaded; authToken is left in storage.
logOutUser ==
    /\ Settled
    /\ DashboardRendered
    /\ UNCHANGED <<outsideAuth, authToken>>
    /\ loggedInUser' = ""
    /\ PageLoad(path)

\* The application with Header shown on the dashboards.
HeaderNext ==
    \/ AuthNext
    \/ logOutUser

HeaderSpec == FreshInit /\ [][HeaderNext]_vars

\* The token the backend issues to the employee registered in the modal.
NewEmployeeToken == "jwt-new-employee"

\* EmployeeRegistrationModal.handleSubmit up to its await, on the admin
\* dashboard with a form that passes validateForm (a form that does not
\* only gets its inline errors); every control is disabled while loading.
ModalSubmit ==
    /\ Settled
    /\ DashboardRendered
    /\ userData = "admin"
    /\ ~isLoading
    /\ Len(authNet) < MaxInFlight
    /\ isLoading' = TRUE
    /\ authNet' = Append(authNet, [kind |-> "modal", live |-> TRUE])
    /\ UNCHANGED <<outsideAuth, path, authToken, loggedInUser, alertShown, token, userData,
                   authLoading>>

\* apiService.registerEmployee after its request: setToken(response.token)
\* when the response says success.
registerEmployee(ok) ==
    IF ok
    THEN token' = NewEmployeeToken /\ authToken' = NewEmployeeToken
    ELSE UNCHANGED <<token, authToken>>

\* The response of the modal's call k arrives: apiService.registerEmployee,
\* then the success toast, onSuccess and handleClose, or the error toast;
\* loading ends in both.  userData and loggedInUser are not touched.
ModalSettled(k, ok) ==
    /\ Settled
    /\ k \in 1..Len(authNet)
    /\ authNet[k].kind = "modal"
    /\ registerEmployee(ok)
    /\ alertShown' = IF ok THEN "registered" ELSE "failed"
    /\ isLoading' = FALSE
    /\ authNet' = RemoveAt(authNet, k)
    /\ UNCHANGED <<outsideAuth, path, authLoading, userData, loggedInUser>>

\* The session with the registration modal of the admin dashboard.
ModalNext ==
    \/ Hydrate
    \/ DefaultRoute
    \/ ProtectedRouteNavigate
    \/ AuthLayoutEffect
    \/ \E p \in AuthRoutes : FollowLink(p)
    \/ \E p \in Paths : Visit(p)
    \/ \E kind \in AuthKinds : Submit(kind)
    \/ \E k \in 1..MaxInFlight, outcome \in Roles \cup {"unsuccessful", "rejected"} :
          k \in 1..Len(authNet) /\ authNet[k].kind # "modal" /\ AuthSettled(k, outcome)
    \/ Logout
    \/ ModalSubmit
    \/ \E k \in 1..MaxInFlight, ok \in BOOLEAN : ModalSettled(k, ok)

ModalSpec == FreshInit /\ [][ModalNext]_vars

\* Renders and effects run as soon as they are due.
AuthFairness ==
    /\ WF_vars(Hydrate)
    /\ WF_vars(DefaultRoute)
    /\ WF_vars(ProtectedRouteNavigate)
    /\ WF_vars(AuthLayoutEffect)

AuthLive == AuthSpec /\ AuthFairness

\* ================================================================== admin dashboard
\* src/src/components/Dashbord/AdminDashboard.jsx
NullStats == [kind |-> "null", call |-> 0]
ZeroStats == [kind |-> "zeros", call |-> 0]
EmptyList == [kind |-> "empty", call |-> 0]
Pending == [kind |-> "pending", call |-> 0]
Rejected == [kind |-> "rejected", call |-> 0]
\* The body the backend sends to a request of fetchDashboardData call number id.
Response(id) == [kind |-> "response", call |-> id]

AdminError == "Failed to load dashboard data. Please refresh the page."

\* getDashboardStats, getAllEmployees, getAllTasks
FetchRequests == {"stats", "employees", "tasks"}

CaughtNot(r, result) == result

\* .catch(() => default) of each of the three promises
Caught(r, result) ==
    IF result.kind = "rejected"
    THEN (IF r = "stats" THEN ZeroStats ELSE EmptyList)
    ELSE result

\* The render guards of AdminDashboard.
AdminScreen(authLd, ud, ld, err) ==
    IF authLd THEN "authenticating"
    ELSE IF ud # "admin" THEN "accessDenied"
    ELSE IF ld THEN "spinner"
    ELSE IF err # Null THEN "errorPage"
    ELSE "dashboard"

FetchCall(id) ==
    [kind |-> "fetch", id |-> id, stats |-> Pending, employees |-> Pending,
     tasks |-> Pending]

DeleteCall == [FetchCall(0) EXCEPT !.kind = "delete"]

DeletesInFlight == Cardinality({k \in 1..Len(adminNet) : adminNet[k].kind = "delete"})

\* fetchDashboardData up to the await of Promise.all
FetchDashboardStart(queue) ==
    /\ fetchesStarted < MaxRefreshes
    /\ Len(queue) < MaxInFlight
    /\ adminLoading' = TRUE
    /\ adminError' = Null
    /\ fetchesStarted' = fetchesStarted + 1
    /\ adminNet' = Append(queue, FetchCall(fetchesStarted + 1))

\* useEffect(() => { if (userData.role === 'admin') fetchDashboardData() }, [userData])
AdminMountEffect ==
    /\ ~adminMounted
    /\ userData = "admin"
    /\ adminMounted' = TRUE
    /\ FetchDashboardStart(adminNet)
    /\ UNCHANGED <<outsideAdmin, dashboardData>>

\* refreshDashboard: the header's refresh button, the quick action, "Try Again"
RefreshDashboard ==
    /\ adminMounted
    /\ AdminScreen(authLoading, userData, adminLoading, adminError)
           \in {"dashboard", "errorPage"}
    /\ fetchesStarted + DeletesInFlight < MaxRefreshes
    /\ FetchDashboardStart(adminNet)
    /\ UNCHANGED <<outsideAdmin, adminMounted, dashboardData>>

\* handleDeleteEmployee after the prompt is accepted, up to the await
DeleteEmployeeStart ==
    /\ adminMounted
    /\ AdminScreen(authLoading, userData, adminLoading, adminError) = "dashboard"
    /\ fetchesStarted + DeletesInFlight < MaxRefreshes
    /\ Len(adminNet) < MaxInFlight
    /\ adminNet' = Append(adminNet, DeleteCall)
    /\ UNCHANGED <<outsideAdmin, adminMounted, dashboardData, adminLoading, adminError,
                   fetchesStarted>>

\* handleDeleteEmployee after the await: onRefresh() on success, an alert either way
DeleteEmployeeSettled(k, ok) ==
    /\ k \in 1..Len(adminNet)
    /\ adminNet[k].kind = "delete"
    /\ IF ok
       THEN /\ FetchDashboardStart(RemoveAt(adminNet, k))
            /\ alertShown' = "deleted"
       ELSE /\ adminNet' = RemoveAt(adminNet, k)
            /\ alertShown' = "failed"
            /\ UNCHANGED <<adminLoading, adminError, fetchesStarted>>
    /\ UNCHANGED <<empVars, apiVars, extraVars, path, authToken, loggedInUser, token, userData,
                   authLoading, isLoading, authNet, adminMounted, dashboardData>>

\* The backend answers request r of call k, or the request fails.
ServerAnswer(k, r, ok) ==
    /\ k \in 1..Len(adminNet)
    /\ adminNet[k].kind = "fetch"
    /\ adminNet[k][r] = Pending
    /\ adminNet' = [adminNet EXCEPT
                       ![k][r] = Caught(r, IF ok THEN Response(adminNet[k].id) ELSE Rejected)]
    /\ UNCHANGED <<outsideAdmin, adminMounted, dashboardData, adminLoading, adminError,
                   fetchesStarted>>

\* Promise.all settles: fulfilled when all three are, rejected with the first rejection.
FetchDashboardSettled(k) ==
    /\ k \in 1..Len(adminNet)
    /\ adminNet[k].kind = "fetch"
    /\ LET call == adminNet[k]
           rejected == \E r \in FetchRequests : call[r] = Rejected
           fulfilled == \A r \in FetchRequests : call[r] \notin {Pending, Rejected}
       IN /\ rejected \/ fulfilled
          /\ IF rejected
             THEN /\ adminError' = AdminError
                  /\ UNCHANGED dashboardData
             ELSE /\ dashboardData' = [stats |-> call.stats, employees |-> call.employees,
                                       tasks |-> call.tasks]
                  /\ UNCHANGED adminError
    /\ adminLoading' = FALSE
    /\ adminNet' = RemoveAt(adminNet, k)
    /\ UNCHANGED <<outsideAdmin, adminMounted, fetchesStarted>>

AdminInit ==
    /\ ExtraIdle
    /\ ApiIdle
    /\ EmployeeIdle
    /\ SignedIn("admin")
    /\ AdminIdle

AdminNext ==
    \/ AdminMountEffect
    \/ RefreshDashboard
    \/ DeleteEmployeeStart
    \/ \E k \in 1..MaxInFlight, ok \in BOOLEAN : DeleteEmployeeSettled(k, ok)
    \/ \E k \in 1..MaxInFlight, r \in FetchRequests, ok \in BOOLEAN : ServerAnswer(k, r, ok)
    \/ \E k \in 1..MaxInFlight : FetchDashboardSettled(k)

AdminSpec == AdminInit /\ [][AdminNext]_vars

\* ================================================================== HTTP client
\* src/src/utils/ApiUtils.js, class ApiService
API_BASE_URL == "http://localhost:5000/api"

\* config.API_BASE_URL, the base of ApiUtils.buildUrl and of ApiServiceV2.
config_API_BASE_URL(env) == IF env # Undefined THEN env ELSE "http://localhost:5000"

\* The values of VITE_API_BASE_URL: not set, the local and the deployed backend.
BackendUrls == {Undefined, "http://localhost:5000", "https://emsbackend-92zu.onrender.com"}

HeaderNames == {"Content-Type", "Authorization", "X-Request"}
Absent == "absent"
NoHeaders == [h \in HeaderNames |-> Absent]

\* `Bearer ${this.token}`
Bearer(tok) == IF tok = "jwt-admin" THEN "Bearer jwt-admin" ELSE "Bearer jwt-employee"

\* The options the service's methods pass: none, { method, body },
\* { method, headers: { 'Content-Type' }, body }, and a caller's own header.
ApiOptions ==
    { [method |-> "GET", body |-> FALSE, hasHeaders |-> FALSE, headers |-> NoHeaders],
      [method |-> "POST", body |-> TRUE, hasHeaders |-> FALSE, headers |-> NoHeaders],
      [method |-> "POST", body |-> TRUE, hasHeaders |-> TRUE,
       headers |-> [NoHeaders EXCEPT !["Content-Type"] = "application/json"]],
      [method |-> "GET", body |-> FALSE, hasHeaders |-> TRUE,
       headers |-> [NoHeaders EXCEPT !["X-Request"] = "1"]] }

Endpoints == {"/auth/login", "/employee/profile", "/admin/employees"}

RequestConfigAuthBeforeSpread(tok, endpoint, options) ==
    LET merged == [h \in HeaderNames |->
                      IF options.headers[h] # Absent THEN options.headers[h]
                      ELSE IF h = "Content-Type" THEN "application/json"
                      ELSE IF h = "Authorization" /\ tok # Null THEN Bearer(tok)
                      ELSE Absent]
    IN [busy |-> TRUE, url |-> <<API_BASE_URL, endpoint>>, method |-> options.method,
        body |-> options.body,
        headers |-> IF options.hasHeaders THEN options.headers ELSE merged]

\* config of request(): { headers: { 'Content-Type', ...options.headers }, ...options },
\* then config.headers.Authorization when a token is held.
RequestConfig(tok, endpoint, options) ==
    LET merged == [h \in HeaderNames |->
                      IF options.headers[h] # Absent THEN options.headers[h]
                      ELSE IF h = "Content-Type" THEN "application/json"
                      ELSE Absent]
        spread == IF options.hasHeaders THEN options.headers ELSE merged
        headers == IF tok # Null
                   THEN [spread EXCEPT !["Authorization"] = Bearer(tok)]
                   ELSE spread
    IN [busy |-> TRUE, url |-> <<API_BASE_URL, endpoint>>, method |-> options.method,
        body |-> options.body, headers |-> headers]

\* What comes back: fetch rejects (network failure), or a response with a status
\* and a body that is JSON (with or without a message field) or is not.
NoBody == [json |-> FALSE, message |-> Absent]
HttpStatuses == {200, 201, 400, 401, 500}
Bodies == {NoBody} \cup {[json |-> TRUE, message |-> m] :
                            m \in {Absent, "", "Invalid credentials"}}
Replies ==
    {[kind |-> "networkError", status |-> 0, body |-> NoBody]} \cup
    {[kind |-> "response", status |-> st, body |-> b] : st \in HttpStatuses, b \in Bodies}

\* response.ok
Ok(status) == status >= 200 /\ status <= 299

Returned(data) == [kind |-> "returned", data |-> data, message |-> ""]
Thrown(message) == [kind |-> "thrown", data |-> NoBody, message |-> message]

RequestResultNoOkCheck(reply) ==
    IF reply.kind = "networkError" THEN Thrown("Failed to fetch")
    ELSE IF ~reply.body.json THEN Thrown("Unexpected token")
    ELSE Returned(reply.body)

\* request() after fetch: response.json(), the response.ok test, the rethrow.
RequestResult(reply) ==
    IF reply.kind = "networkError" THEN Thrown("Failed to fetch")
    ELSE IF ~reply.body.json THEN Thrown("Unexpected token")
    ELSE IF ~Ok(reply.status)
         THEN Thrown(IF reply.body.message \in {Absent, ""}
                     THEN "Something went wrong"
                     ELSE reply.body.message)
    ELSE Returned(reply.body)

\* request(endpoint, options) up to the await of fetch
ApiRequest(endpoint, options) ==
    /\ ~apiSent.busy
    /\ apiSent' = RequestConfig(token, endpoint, options)
    /\ apiReply' = [kind |-> "none", status |-> 0, body |-> NoBody]
    /\ apiResult' = [kind |-> "pending", data |-> NoBody, message |-> ""]
    /\ UNCHANGED outsideApi

\* the rest of request(): it returns or throws
ApiReply(reply) ==
    /\ apiSent.busy
    /\ apiSent' = [apiSent EXCEPT !.busy = FALSE]
    /\ apiReply' = reply
    /\ apiResult' = RequestResult(reply)
    /\ UNCHANGED outsideApi

\* setToken(token)
setToken(tok) ==
    /\ token' = tok
    /\ authToken' = tok
    /\ UNCHANGED <<outsideAuth, path, loggedInUser, alertShown, userData,
                   authLoading, isLoading, authNet>>

\* clearToken()
clearToken ==
    /\ token' = Null
    /\ authToken' = Null
    /\ UNCHANGED <<outsideAuth, path, loggedInUser, alertShown, userData,
                   authLoading, isLoading, authNet>>

\* Nobody is signed in and the login form is shown.
SignedOut ==
    /\ path = "/login"
    /\ authToken = Null /\ token = Null
    /\ loggedInUser = Null /\ userData = Null
    /\ authLoading = FALSE /\ isLoading = FALSE
    /\ authNet = <<>> /\ alertShown = "none"

ApiInit ==
    /\ OthersIdle
    /\ VITE_API_BASE_URL \in BackendUrls
    /\ EmployeeIdle
    /\ AdminIdle
    /\ ApiIdle
    /\ \/ SignedOut
       \/ \E role \in Roles : SignedIn(role)

ApiNext ==
    \/ \E endpoint \in Endpoints, options \in ApiOptions : ApiRequest(endpoint, options)
    \/ \E reply \in Replies : ApiReply(reply)
    \/ \E role \in Roles : setToken(TokenOf(role))
    \/ clearToken

ApiSpec == ApiInit /\ [][ApiNext]_vars

\* ================================================================== forms

\* String.prototype.trim() leaves nothing: the !value.trim() tests.
Blank(s) == \A i \in 1 .. Len(s) : s[i] = " "

\* new Date("YYYY-MM-DD"): midnight UTC of the day, in hours.
DateOf(day) == day * 24

\* new Date() with setHours(0, 0, 0, 0): midnight local time of the local
\* date, in hours UTC.
LocalMidnight(c) == c.today * 24 - c.offset

\* TaskAssignmentModal.validateForm without the test of the date against today.
validateFormNoPast(f, c) ==
    (IF Blank(f.taskTitle) THEN {"taskTitle"} ELSE {})
    \cup (IF Blank(f.taskDescription) THEN {"taskDescription"} ELSE {})
    \cup (IF f.taskDate = 0 THEN {"taskDate"} ELSE {})
    \cup (IF Blank(f.category) THEN {"category"} ELSE {})
    \cup (IF f.assignedTo = "" THEN {"assignedTo"} ELSE {})

\* TaskAssignmentModal.validateForm: the keys of newErrors.
validateForm(f, c) ==
    (IF Blank(f.taskTitle) THEN {"taskTitle"} ELSE {})
    \cup (IF Blank(f.taskDescription) THEN {"taskDescription"} ELSE {})
    \cup (IF f.taskDate = 0
            THEN {"taskDate"}
            ELSE IF DateOf(f.taskDate) < LocalMidnight(c) THEN {"taskDate"} ELSE {})
    \cup (IF Blank(f.category) THEN {"category"} ELSE {})
    \cup (IF f.assignedTo = "" THEN {"assignedTo"} ELSE {})

\* /\S+@\S+\.\S+/.test(s): somewhere in s a non-space, an "@", one or more
\* non-spaces, a "." and a non-space.
EmailPattern(s) ==
    \E i \in 2 .. Len(s) : \E j \in (i + 2) .. (Len(s) - 1) :
        /\ s[i] = "@"
        /\ s[j] = "."
        /\ s[i - 1] # " "
        /\ \A k \in (i + 1) .. (j - 1) : s[k] # " "
        /\ s[j + 1] # " "

MinAdminPassword == 8
MinEmployeePassword == 6

\* Register.validateForm: the keys of newErrors.
RegisterValidateForm(f) ==
    LET minPasswordLength ==
            IF f.userType = "admin" THEN MinAdminPassword ELSE MinEmployeePassword
    IN  (IF Blank(f.firstName) THEN {"firstName"} ELSE {})
        \cup (IF Blank(f.email)
                THEN {"email"}
                ELSE IF ~EmailPattern(f.email) THEN {"email"} ELSE {})
        \cup (IF f.password = <<>>
                THEN {"password"}
                ELSE IF Len(f.password) < minPasswordLength THEN {"password"} ELSE {})
        \cup (IF f.password # f.confirmPassword THEN {"confirmPassword"} ELSE {})
        \cup (IF f.userType = "admin" /\ Blank(f.adminKey) THEN {"adminKey"} ELSE {})

\* The browser's validation of <input type="email">: one "@", a local part
\* and dot-separated labels after it, none empty, no white space.
TypeEmail(s) ==
    \E i \in 2 .. (Len(s) - 1) :
        /\ s[i] = "@"
        /\ \A k \in 1 .. Len(s) : k # i => s[k] \notin {"@", " "}
        /\ s[i + 1] # "."
        /\ s[Len(s)] # "."
        /\ \A k \in (i + 1) .. (Len(s) - 1) : ~(s[k] = "." /\ s[k + 1] = ".")

\* The browser's validation of the Register form before onSubmit is
\* dispatched: the required inputs and the email input.
RegisterConstraints(f) ==
    /\ f.firstName # <<>>
    /\ f.email # <<>>
    /\ TypeEmail(f.email)
    /\ f.password # <<>>
    /\ f.confirmPassword # <<>>
    /\ f.userType = "admin" => f.adminKey # <<>>

LowerCase == {"a", "b", "c", "d", "e", "f", "g"}
UpperCase == {"A", "B", "C", "D", "E"}
Digits == {"1"}

MinResetPassword == 6

\* ResetPassword.validatePassword: the error, or null.
validatePassword(password) ==
    IF Len(password) < MinResetPassword
        THEN "Password must be at least 6 characters long"
    ELSE IF ~(/\ \E i \in 1 .. Len(password) : password[i] \in LowerCase
              /\ \E i \in 1 .. Len(password) : password[i] \in UpperCase)
        THEN "Password must contain at least one uppercase and one lowercase letter"
    ELSE IF ~(\E i \in 1 .. Len(password) : password[i] \in Digits)
        THEN "Password must contain at least one number"
    ELSE Null

\* TaskAssignmentModal.handleSubmit up to its await.  The submit button is
\* disabled while loading.  Editing a task sends nothing: the handler
\* alerts and ends in the same step.
TaskSubmit ==
    /\ form.kind = "task"
    /\ ~formLoading
    /\ IF validateForm(form, clock) # {}
         THEN /\ formErrors' = "inline"
              /\ UNCHANGED <<formLoading, formAlert, formSent>>
         ELSE /\ formErrors' = "none"
              /\ IF form.editingTask
                   THEN /\ formAlert' = "Task update functionality will be implemented soon!"
                        /\ UNCHANGED <<formLoading, formSent>>
                   ELSE /\ formLoading' = TRUE
                        /\ formSent' = "assignTask"
                        /\ UNCHANGED formAlert
    /\ UNCHANGED <<form, clock>>
    /\ UNCHANGED outsideForm

\* TaskAssignmentModal.handleSubmit after its await: success alerts, empties
\* the form and closes the modal; failure alerts the error.
TaskSettled(ok) ==
    /\ formSent = "assignTask"
    /\ formSent' = "none"
    /\ formLoading' = FALSE
    /\ IF ok
         THEN /\ formAlert' = "Task assigned successfully!"
              /\ form' = NoForm
         ELSE /\ formAlert' = "Failed to assign task. Please try again."
              /\ UNCHANGED form
    /\ UNCHANGED <<formErrors, clock>>
    /\ UNCHANGED outsideForm

\* Register.handleSubmit up to its await, behind the browser's validation
\* of the form.  The submit button is disabled while isLoading.
RegisterSubmit ==
    /\ form.kind = "register"
    /\ ~formLoading
    /\ IF ~RegisterConstraints(form)
         THEN /\ formErrors' = "browser"
              /\ UNCHANGED <<formLoading, formSent>>
         ELSE IF RegisterValidateForm(form) # {}
         THEN /\ formErrors' = "inline"
              /\ UNCHANGED <<formLoading, formSent>>
         ELSE /\ formErrors' = "none"
              /\ formLoading' = TRUE
              /\ formSent' = IF form.userType = "admin"
                               THEN "registerAdmin" ELSE "registerEmployee"
    /\ UNCHANGED <<form, formAlert, clock>>
    /\ UNCHANGED outsideForm

\* Register.handleSubmit after its await: RegisterHandler alerts the
\* outcome; a registered user leaves the form for the dashboard.
RegisterSettled(ok) ==
    /\ formSent \in {"registerAdmin", "registerEmployee"}
    /\ formSent' = "none"
    /\ formLoading' = FALSE
    /\ IF ok
         THEN /\ formAlert' = "registered successfully!"
              /\ form' = NoForm
         ELSE /\ formAlert' = "Registration failed"
              /\ UNCHANGED form
    /\ UNCHANGED <<formErrors, clock>>
    /\ UNCHANGED outsideForm

\* ResetPassword.handleSubmit up to its await.  The form is rendered only
\* with a token, and its button is disabled while isLoading, while a field
\* is empty and while the two fields differ.
ResetSubmit ==
    /\ form.kind = "reset"
    /\ form.token # ""
    /\ ~(formLoading \/ form.newPassword = <<>> \/ form.confirmPassword = <<>>
           \/ form.newPassword # form.confirmPassword)
    /\ IF form.token = ""
         THEN /\ formErrors' = "Invalid reset token. Please request a new password reset."
              /\ UNCHANGED <<formLoading, formSent>>
         ELSE IF form.newPassword = <<>> \/ form.confirmPassword = <<>>
         THEN /\ formErrors' = "Please fill in all fields"
              /\ UNCHANGED <<formLoading, formSent>>
         ELSE IF validatePassword(form.newPassword) # Null
         THEN /\ formErrors' = validatePassword(form.newPassword)
              /\ UNCHANGED <<formLoading, formSent>>
         ELSE IF form.newPassword # form.confirmPassword
         THEN /\ formErrors' = "Passwords do not match"
              /\ UNCHANGED <<formLoading, formSent>>
         ELSE /\ formErrors' = "none"
              /\ formLoading' = TRUE
              /\ formSent' = "resetPassword"
    /\ UNCHANGED <<form, formAlert, clock>>
    /\ UNCHANGED outsideForm

\* ResetPassword.handleSubmit after its await: success shows the message
\* and empties the fields; failure shows the error.
ResetSettled(ok) ==
    /\ formSent = "resetPassword"
    /\ formSent' = "none"
    /\ formLoading' = FALSE
    /\ IF ok
         THEN /\ formErrors' = "success"
              /\ form' = [form EXCEPT !.newPassword = <<>>, !.confirmPassword = <<>>]
         ELSE /\ formErrors' = "Failed to reset password. Please try again."
              /\ UNCHANGED form
    /\ UNCHANGED <<formAlert, clock>>
    /\ UNCHANGED outsideForm

\* The timeout set by a successful reset: navigate('/login').
ResetRedirect ==
    /\ form.kind = "reset"
    /\ formErrors = "success"
    /\ form' = NoForm
    /\ formErrors' = "none"
    /\ UNCHANGED <<formLoading, formAlert, formSent, clock>>
    /\ UNCHANGED outsideForm

Texts == {<<>>, <<" ">>, <<"a">>}
Days == 1 .. 3
Offsets == {-12, 0, 14}
Emails ==
    {<<>>, <<" ">>, <<"a", "b">>, <<"a", "@", "b">>, <<"a", "@", "b", ".", "c">>,
     <<"a", " ", "b", "@", "c", ".", "d">>, <<"@", "b", ".", "c">>}
Passwords ==
    {<<>>, <<"A", "b", "1">>, <<"a", "b", "c", "d", "e", "1">>,
     <<"A", "b", "c", "d", "e", "f">>, <<"A", "B", "C", "D", "E", "1">>,
     <<"A", "b", "c", "d", "e", "1">>, <<"A", "b", "c", "d", "e", "f", "1">>,
     <<"A", "b", "c", "d", "e", "f", "g", "1">>}

\* The other field of a pair of passwords: the same text, nothing, or another.
Confirmations(password) == {password, <<>>, <<"A", "b", "c", "d", "e", "2">>}

\* An open form with its fields filled in, nothing submitted yet.  The
\* reset form without a token in the URL shows its error from the start.
FormInit ==
    /\ ApiIdle
    /\ SignedOut
    /\ AdminIdle
    /\ EmployeeIdle
    /\ VITE_API_BASE_URL = Undefined
    /\ ToastIdle
    /\ LoginIdle
    /\ BulkIdle
    /\ formLoading = FALSE
    /\ formAlert = "none"
    /\ formSent = "none"
    /\ \E today \in Days : \E offset \in Offsets :
           clock = [today |-> today, offset |-> offset]
    /\ \/ /\ \E title \in Texts : \E description \in Texts : \E category \in Texts :
             \E date \in {0} \cup Days : \E assignee \in {"", "emp1"} :
             \E editing \in BOOLEAN :
                 form = [NoForm EXCEPT !.kind = "task", !.taskTitle = title,
                            !.taskDescription = description, !.taskDate = date,
                            !.category = category, !.assignedTo = assignee,
                            !.editingTask = editing]
          /\ formErrors = "none"
       \/ /\ clock.today = 1 /\ clock.offset = 0
          /\ \E name \in Texts : \E email \in Emails : \E password \in Passwords :
             \E userType \in Roles : \E adminKey \in Texts :
             \E confirm \in Confirmations(password) :
                 form = [NoForm EXCEPT !.kind = "register", !.firstName = name,
                            !.email = email, !.password = password,
                            !.confirmPassword = confirm, !.userType = userType,
                            !.adminKey = adminKey]
          /\ formErrors = "none"
       \/ /\ clock.today = 1 /\ clock.offset = 0
          /\ \E tok \in {"", "reset-token"} : \E password \in Passwords :
             \E confirm \in Confirmations(password) :
                 form = [NoForm EXCEPT !.kind = "reset", !.token = tok,
                            !.newPassword = password, !.confirmPassword = confirm]
          /\ formErrors = IF form.token = ""
                            THEN "Invalid or missing reset token. Please request a new password reset."
                            ELSE "none"

FormNext ==
    \/ TaskSubmit
    \/ \E ok \in BOOLEAN : TaskSettled(ok)
    \/ RegisterSubmit
    \/ \E ok \in BOOLEAN : RegisterSettled(ok)
    \/ ResetSubmit
    \/ \E ok \in BOOLEAN : ResetSettled(ok)
    \/ ResetRedirect

FormSpec == FormInit /\ [][FormNext]_vars

\* ================================================================== toasts

\* The ids of a list of toasts.
Listed(list) == {list[k] : k \in 1 .. Len(list)}

\* this.toasts.filter(toast => toast.id !== id)
Without(list, id) == SelectSeq(list, LAMBDA t : t # id)

\* A render of ToastContainer over a list.  Every Toast gets a new onClose
\* function, so the effect of each mounted Toast runs again: its clean-up
\* clears the timer and a timer of the whole duration is set.  A Toast
\* that is mounted sets its first timer, one that is unmounted clears its own.
Rendered(list) == [id \in ToastIds |-> IF id \in Listed(list) THEN DurationTicks ELSE -1]

\* toastService.show: push onto the array and notify.  setToasts is given
\* the array the service mutated: once the state holds that very array,
\* React sees no change and renders nothing.
Show ==
    /\ toastsShown < MaxToasts
    /\ toastsShown' = toastsShown + 1
    /\ toasts' = Append(toasts, toastsShown + 1)
    /\ sameArray' = TRUE
    /\ timers' = IF sameArray THEN timers ELSE Rendered(toasts')
    /\ UNCHANGED outsideToast

\* toastService.remove: filter makes a new array, setToasts renders it.
Remove(id) ==
    /\ toasts' = Without(toasts, id)
    /\ sameArray' = TRUE
    /\ timers' = Rendered(toasts')
    /\ UNCHANGED toastsShown
    /\ UNCHANGED outsideToast

\* The timer of a Toast fires: onClose().
Timeout(id) ==
    /\ timers[id] = 0
    /\ Remove(id)

\* The close button of a displayed Toast.
CloseClick(id) ==
    /\ timers[id] >= 0
    /\ Remove(id)

\* The component that calls useToast renders again (a state change of the
\* dashboard, a change of the context it reads).
Rerender ==
    /\ timers' = Rendered(toasts)
    /\ timers' # timers
    /\ UNCHANGED <<toasts, sameArray, toastsShown>>
    /\ UNCHANGED outsideToast

\* Time passes on the running timers; a timer that is due fires first.
Tick ==
    /\ \E id \in ToastIds : timers[id] > 0
    /\ \A id \in ToastIds : timers[id] # 0
    /\ timers' = [id \in ToastIds |-> IF timers[id] > 0 THEN timers[id] - 1 ELSE timers[id]]
    /\ UNCHANGED <<toasts, sameArray, toastsShown>>
    /\ UNCHANGED outsideToast

ToastInit ==
    /\ ApiIdle
    /\ SignedIn("employee")
    /\ AdminIdle
    /\ EmployeeIdle
    /\ FormIdle
    /\ VITE_API_BASE_URL = Undefined
    /\ ToastIdle
    /\ LoginIdle
    /\ BulkIdle

ToastNext ==
    \/ Show
    \/ \E id \in ToastIds : Timeout(id)
    \/ \E id \in ToastIds : CloseClick(id)
    \/ Rerender
    \/ Tick

ToastSpec == ToastInit /\ [][ToastNext]_vars

\* Time passes and due timers fire; nothing is assumed of the user or of
\* the renders of the dashboard.
ToastFairness ==
    /\ WF_vars(Tick)
    /\ WF_vars(\E id \in ToastIds : Timeout(id))

ToastLive == ToastSpec /\ ToastFairness

\* ================================================================== login form

LoginEmails == {<<>>, <<" ">>, <<"a", "@", "b", ".", "c">>, <<"x", "@", "b", ".", "c">>}
LoginPasswords == {<<>>, <<" ">>, <<"p", "w">>, <<"b", "a", "d">>}

\* handleEmailChange: the inputs are not disabled while the request runs.
handleEmailChange(value) ==
    /\ login.mounted
    /\ login' = [login EXCEPT !.email = value]
    /\ UNCHANGED <<loginCall, loginAlert>>
    /\ UNCHANGED outsideLogin

\* handlePasswordChange
handlePasswordChange(value) ==
    /\ login.mounted
    /\ login' = [login EXCEPT !.password = value]
    /\ UNCHANGED <<loginCall, loginAlert>>
    /\ UNCHANGED outsideLogin

\* SubmitHandler up to its await.  The button is disabled while isLoading
\* and while a field is blank.
SubmitHandler ==
    /\ login.mounted
    /\ ~(login.isLoading \/ Blank(login.email) \/ Blank(login.password))
    /\ login' = [login EXCEPT !.isLoading = TRUE]
    /\ loginCall' = [busy |-> TRUE, email |-> login.email, password |-> login.password]
    /\ UNCHANGED loginAlert
    /\ UNCHANGED outsideLogin

LoginOutcomes == {"success", "unsuccessful", "rejected"}

\* LoginHandler: login() turns a rejected request into { success: false },
\* LoginHandler alerts every failure and returns; it never throws.
LoginHandlerThrows(outcome) == FALSE

\* The rest of SubmitHandler once LoginHandler has settled: the fields are
\* emptied unless LoginHandler threw, isLoading ends in the finally block.  A
\* successful login sets the session, and AuthLayout leaves the form.
SubmitSettled(outcome) ==
    /\ loginCall.busy
    /\ loginCall' = NoCall
    /\ loginAlert' = IF outcome = "success" THEN loginAlert ELSE "failed"
    /\ login' = [email |-> IF LoginHandlerThrows(outcome) THEN login.email ELSE <<>>,
                 password |-> IF LoginHandlerThrows(outcome) THEN login.password ELSE <<>>,
                 isLoading |-> FALSE,
                 mounted |-> outcome # "success"]
    /\ UNCHANGED outsideLogin

\* The user signs out later and the login form is mounted anew.
LoginRemount ==
    /\ ~login.mounted
    /\ login' = [email |-> <<>>, password |-> <<>>, isLoading |-> FALSE, mounted |-> TRUE]
    /\ UNCHANGED <<loginCall, loginAlert>>
    /\ UNCHANGED outsideLogin

LoginInit ==
    /\ ApiIdle
    /\ SignedOut
    /\ AdminIdle
    /\ EmployeeIdle
    /\ FormIdle
    /\ ToastIdle
    /\ VITE_API_BASE_URL = Undefined
    /\ LoginIdle
    /\ BulkIdle

LoginNext ==
    \/ \E value \in LoginEmails : handleEmailChange(value)
    \/ \E value \in LoginPasswords : handlePasswordChange(value)
    \/ SubmitHandler
    \/ \E outcome \in LoginOutcomes : SubmitSettled(outcome)
    \/ LoginRemount

LoginSpec == LoginInit /\ [][LoginNext]_vars

\* Every call of LoginHandler settles.
LoginFairness == WF_vars(\E outcome \in LoginOutcomes : SubmitSettled(outcome))

LoginLive == LoginSpec /\ LoginFairness

\* ================================================================== bulk delete

\* handleSelectEmployee / handleSelectTask: the check boxes stay enabled
\* while the delete runs.
ToggleSelect(id) ==
    /\ bulk.kind # "none"
    /\ bulk' = [bulk EXCEPT !.selected =
                   IF id \in @ THEN @ \ {id} ELSE @ \cup {id}]
    /\ UNCHANGED <<items, batch, stale>>
    /\ UNCHANGED outsideBulk

\* handleBulkDelete up to its await, the prompt accepted: one delete request
\* per selected id, joined by Promise.all.  Requests of an earlier batch
\* that are still on their way stay there.
handleBulkDelete ==
    /\ bulk.kind # "none"
    /\ bulk.selected # {}
    /\ ~bulk.loading
    /\ bulk.batches < MaxBatches
    /\ bulk' = [bulk EXCEPT !.loading = TRUE, !.batches = @ + 1]
    /\ batch' = [awaiting |-> TRUE,
                 calls |-> [id \in ItemIds |-> IF id \in bulk.selected THEN "sent" ELSE "none"]]
    /\ UNCHANGED <<items, stale>>
    /\ UNCHANGED outsideBulk

\* A handleBulkDelete that joins its requests with Promise.allSettled.
PromiseAllSettled(calls) ==
    IF \E id \in ItemIds : calls[id] = "sent" THEN "pending" ELSE "fulfilled"

\* Promise.all over the calls: rejected with the first rejection, fulfilled
\* when every call is fulfilled.
PromiseAll(calls) ==
    IF \E id \in ItemIds : calls[id] = "fail" THEN "rejected"
    ELSE IF \E id \in ItemIds : calls[id] = "sent" THEN "pending"
    ELSE "fulfilled"

Deleted(kind) == IF kind = "employees" THEN "Employees deleted successfully!"
                 ELSE "Tasks deleted successfully!"
NotDeleted(kind) == IF kind = "employees"
                    THEN "Failed to delete some employees. Please try again."
                    ELSE "Failed to delete some tasks. Please try again."

\* A handleBulkDelete that calls setLoading(false) as the last statement of
\* its try block.
LoadingAfterTry(outcome) == outcome = "rejected"

\* loading after handleBulkDelete has gone on: setLoading(false) stands in
\* the finally block, so it runs after the try and after the catch.
LoadingAfterFinally(outcome) == FALSE

\* The backend answers the delete request of id, and handleBulkDelete goes
\* on when that settles its Promise.all: the selection is emptied, onRefresh
\* called and success alerted, or the failure alerted; loading ends in both.
\* The requests a rejected Promise.all leaves behind are awaited by nothing.
DeleteAnswered(id, ok) ==
    /\ batch.awaiting
    /\ batch.calls[id] = "sent"
    /\ items' = IF ok THEN items \ {id} ELSE items
    /\ LET calls == [batch.calls EXCEPT ![id] = IF ok THEN "ok" ELSE "fail"]
           outcome == PromiseAll(calls)
       IN  /\ batch' = [awaiting |-> outcome = "pending", calls |-> calls]
           /\ stale' = IF outcome = "rejected"
                         THEN stale \cup {i \in ItemIds : calls[i] = "sent"}
                         ELSE stale
           /\ bulk' = IF outcome = "fulfilled"
                        THEN [bulk EXCEPT !.selected = {}, !.refreshes = @ + 1,
                                          !.alert = Deleted(bulk.kind),
                                          !.loading = LoadingAfterFinally(outcome)]
                      ELSE IF outcome = "rejected"
                        THEN [bulk EXCEPT !.alert = NotDeleted(bulk.kind),
                                          !.loading = LoadingAfterFinally(outcome)]
                      ELSE bulk
    /\ UNCHANGED outsideBulk

\* The backend answers a delete request that nothing awaits any more.
StaleAnswered(id, ok) ==
    /\ id \in stale
    /\ stale' = stale \ {id}
    /\ items' = IF ok THEN items \ {id} ELSE items
    /\ UNCHANGED <<bulk, batch>>
    /\ UNCHANGED outsideBulk

BulkInit ==
    /\ ApiIdle
    /\ SignedIn("admin")
    /\ AdminIdle
    /\ EmployeeIdle
    /\ FormIdle
    /\ ToastIdle
    /\ LoginIdle
    /\ VITE_API_BASE_URL = Undefined
    /\ items = ItemIds
    /\ \E kind \in {"employees", "tasks"} :
           bulk = [kind |-> kind, selected |-> {}, loading |-> FALSE, alert |-> "none",
                   batches |-> 0, refreshes |-> 0]
    /\ batch = NoBatch
    /\ stale = {}

BulkNext ==
    \/ \E id \in ItemIds : ToggleSelect(id)
    \/ handleBulkDelete
    \/ \E id \in ItemIds, ok \in BOOLEAN : DeleteAnswered(id, ok)
    \/ \E id \in ItemIds, ok \in BOOLEAN : StaleAnswered(id, ok)

BulkSpec == BulkInit /\ [][BulkNext]_vars

\* ================================================================== loading flags

\* The component whose run is followed, told by what its initial state
\* sets and no action changes.
Following(component) ==
    CASE component = "employee" -> backendTasks # <<>>
      [] component = "bulk" -> bulk.kind # "none"
      [] component = "admin" -> userData = "admin" /\ bulk.kind = "none"
      [] component = "forms" -> clock.today # 0
      [] component = "login" -> userData = Null /\ clock.today = 0
      [] OTHER -> FALSE

\* One of the components that have a loading flag is opened and used; the
\* employee's tasks are all new at the start.
LoadingInit ==
    \/ EmployeeInit({StatusUpdate("newTask")})
    \/ AdminInit
    \/ FormInit
    \/ BulkInit
    \/ LoginInit

LoadingNext ==
    \/ Following("employee") /\ Next
    \/ Following("admin") /\ AdminNext
    \/ Following("forms") /\ FormNext
    \/ Following("bulk") /\ BulkNext
    \/ Following("login") /\ LoginNext

LoadingSpec == LoadingInit /\ [][LoadingNext]_vars

\* Mount effects run, every request is answered and every settled promise
\* runs its continuation; nothing is assumed of the user.
RequestsSettle ==
    /\ WF_vars(Following("admin") /\ AdminMountEffect)
    /\ WF_vars(Following("employee") /\
                 \E k \in 1..MaxInFlight, outcome \in {"ok", "rejected", "lost"} :
                     ServerUpdate(k, outcome))
    /\ WF_vars(Following("employee") /\
                 \E k \in 1..MaxInFlight, ok \in BOOLEAN : ServerProfile(k, ok))
    /\ WF_vars(Following("employee") /\ \E k \in 1..MaxInFlight : UpdateSettled(k))
    /\ WF_vars(Following("employee") /\ \E k \in 1..MaxInFlight : FetchSettled(k))
    /\ WF_vars(Following("admin") /\
                 \E k \in 1..MaxInFlight, r \in FetchRequests, ok \in BOOLEAN :
                     ServerAnswer(k, r, ok))
    /\ WF_vars(Following("admin") /\ \E k \in 1..MaxInFlight : FetchDashboardSettled(k))
    /\ WF_vars(Following("admin") /\
                 \E k \in 1..MaxInFlight, ok \in BOOLEAN : DeleteEmployeeSettled(k, ok))
    /\ WF_vars(Following("forms") /\ \E ok \in BOOLEAN : TaskSettled(ok))
    /\ WF_vars(Following("forms") /\ \E ok \in BOOLEAN : RegisterSettled(ok))
    /\ WF_vars(Following("forms") /\ \E ok \in BOOLEAN : ResetSettled(ok))
    /\ WF_vars(Following("bulk") /\ \E id \in ItemIds, ok \in BOOLEAN : DeleteAnswered(id, ok))
    /\ WF_vars(Following("login") /\ \E outcome \in LoginOutcomes : SubmitSettled(outcome))

LoadingLive == LoadingSpec /\ RequestsSettle

\* ================================================================== properties
\* The board as it would be drawn without search or category filter.
AllColumns(data) == taskColumns(data.tasks, <<>>, "all")

\* The columns in which a task is displayed.
DisplayedIn(cols, taskId) ==
    {c \in Statuses : \E k \in 1..Len(cols[c]) : cols[c][k].id = taskId}

PermittedTransitions ==
    {<<"newTask", "active">>, <<"newTask", "failed">>,
     <<"active", "completed">>, <<"active", "failed">>, <<"active", "newTask">>,
     <<"completed", "active">>,
     <<"failed", "active">>, <<"failed", "newTask">>}

PermittedFrom(cols, taskId, target) ==
    \E c \in DisplayedIn(cols, taskId) : <<c, target>> \in PermittedTransitions

\* C1: the buttons of an expanded card request exactly the permitted targets of the
\* column the card is displayed in, and every confirmation prompt that is open and
\* every update request in flight asks for a permitted transition of its task.
C1_PermittedTransitionsOnly ==
    /\ BoardUsable =>
          \A ck \in Cards(Columns) :
              selectedTaskId = Columns[ck[1]][ck[2]].id =>
                  {b[3] : b \in {x \in Buttons(Columns) : x[1] = ck[1] /\ x[2] = ck[2]}}
                      = {t \in Statuses : <<ck[1], t>> \in PermittedTransitions}
    /\ dialog # NoDialog => PermittedFrom(Columns, dialog.task, dialog.target)
    /\ \A k \in 1..Len(net) :
          net[k].kind = "update" =>
              PermittedFrom(AllColumns(employeeData), net[k].task, net[k].newStatus)

\* C1 witness: the Reopen prompt of a task displayed in the completed column is open.
C1_Witness ==
    /\ dialog.kind = "confirm" /\ dialog.target = "active"
    /\ "completed" \in DisplayedIn(Columns, dialog.task)

\* handleTaskStatusUpdate finishes (its re-fetch settles) in this step.
StatusUpdateFinishes(k) == FetchSettled(k) /\ net[k].cont = "afterUpdate"

ShownInColumn(data, taskId, column) ==
    DisplayedIn(AllColumns(data), taskId) = {column}

C3_FailedUpdateLeavesBoard ==
    [][\A k \in 1..MaxInFlight :
          (UpdateSettled(k) /\ net[k].stage = "fail") =>
              /\ employeeData' = employeeData
              /\ AllColumns(employeeData') = AllColumns(employeeData)
              /\ toastShown' = "error"
              /\ error' = error
              /\ ~loading'
              /\ \A j \in 1..Len(net') : net'[j].kind # "fetch"]_vars

\* C3 witness: an update was rejected, the error toast is up and nothing is in flight.
C3_Witness ==
    /\ toastShown = "error" /\ net = <<>> /\ ~loading
    /\ updatesSent > 0 /\ employeeData.tasks = backendTasks

Occurrences(cols, taskId) ==
    Cardinality({ck \in Cards(cols) : cols[ck[1]][ck[2]].id = taskId})

\* C4: every task that passes the filter is in exactly one column, for every
\* combination of its flags; a task with no flag is in the new column; the column
\* counts sum to the number of filtered tasks.
C4_ExactlyOneColumn ==
    LET cols == Columns
        filtered == filteredTasks(employeeData.tasks, searchTerm, filterCategory)
    IN  /\ \A j \in 1..Len(filtered) :
              /\ Occurrences(cols, filtered[j].id) = 1
              /\ FlagsOf(filtered[j]) = NoFlags =>
                     DisplayedIn(cols, filtered[j].id) = {"newTask"}
        /\ Len(cols.newTask) + Len(cols.active) + Len(cols.completed)
               + Len(cols.failed) = Len(filtered)

\* C4 witness: a search is active, a task without any flag and a task with several
\* flags both pass it.
C4_Witness ==
    LET filtered == filteredTasks(employeeData.tasks, searchTerm, filterCategory)
    IN  /\ searchTerm # <<>>
        /\ \E j \in 1..Len(filtered) : FlagsOf(filtered[j]) = NoFlags
        /\ \E j \in 1..Len(filtered) : filtered[j].completed /\ filtered[j].failed

\* C5: an update request is sent only by accepting the handleStatusChange prompt of
\* that task and target; while a prompt is open, any step other than accepting it
\* (rejecting it included) sends nothing and changes nothing in the dashboard.
C5_ConfirmBeforeUpdate ==
    /\ [][updatesSent' # updatesSent =>
             /\ dialog.kind = "confirm" /\ ConfirmOk
             /\ net'[Len(net')].kind = "update"
             /\ net'[Len(net')].task = dialog.task
             /\ net'[Len(net')].newStatus = dialog.target]_vars
    /\ [][(dialog # NoDialog /\ ~ConfirmOk) =>
             /\ dialog' \in {dialog, NoDialog}
             /\ UNCHANGED <<employeeData, loading, error, activeView, toastShown,
                            updatesSent, searchTerm, filterCategory, selectedTaskId>>
             /\ Len(net') = Len(net)
             /\ \A j \in 1..Len(net) : net'[j].kind = net[j].kind]_vars

\* C5 witness: the update that declines a new task is in flight: both prompts of the
\* Decline button were accepted.
C5_Witness ==
    /\ Len(net) = 1 /\ net[1].kind = "update" /\ net[1].newStatus = "failed"
    /\ ShownInColumn(employeeData, net[1].task, "newTask")

\* C6 as stated: the held employee data changes only in a step that applies a
\* resolved profile fetch.
C6_DataChangesOnlyByFetch ==
    [][employeeData' # employeeData =>
          \E k \in 1..MaxInFlight : FetchSettled(k) /\ net[k].stage = "ok"]_vars

\* ------------------------------------------------------------------ session
\* The response of a login call arrives and reports success for that role.
LoginSucceeds(role) ==
    \E k \in 1..MaxInFlight :
        k <= Len(authNet) /\ authNet[k].kind = "login" /\ AuthSettled(k, role)

\* The response of a login call arrives with success false, or the request throws.
LoginFails ==
    \E k \in 1..MaxInFlight, outcome \in {"unsuccessful", "rejected"} :
        k <= Len(authNet) /\ authNet[k].kind = "login" /\ AuthSettled(k, outcome)

\* C7: a login the backend accepts gives a session of the user's role, and a
\* session of an admin is brought to /admin/dashboard, one of an employee to
\* /employee/dashboard; a login the backend does not accept (success false, a
\* non-2xx status or a failed request) shows an alert and changes neither the
\* path nor the session, the token or the storage, so an empty session stays empty.
C7_LoginRoutesByRole ==
    /\ [][\A role \in Roles : LoginSucceeds(role) =>
             userData' = role /\ token' = TokenOf(role)]_vars
    /\ (userData = "admin" /\ ~authLoading) ~> (path = "/admin/dashboard")
    /\ (userData = "employee" /\ ~authLoading) ~> (path = "/employee/dashboard")
    /\ [][LoginFails =>
             /\ alertShown' = "failed"
             /\ UNCHANGED <<path, userData, token, authToken, loggedInUser>>]_vars

\* After a refused attempt the admin has logged in from the same page and is
\* shown the admin dashboard.
C7_Witness ==
    /\ alertShown = "failed"
    /\ path = "/admin/dashboard"
    /\ userData = "admin"
    /\ token = "jwt-admin"
    /\ authNet = <<>>

\* No token in memory or storage, no stored user, no session.
LoggedOut ==
    /\ token = Null /\ authToken = Null /\ loggedInUser = Null /\ userData = Null

\* A login or registration call settles with success.
AuthSucceeds ==
    \E k \in 1..MaxInFlight, role \in Roles : AuthSettled(k, role)

\* C8: logout leaves the in-memory token, the authToken and loggedInUser storage
\* keys and the session empty; they stay empty until a login or registration
\* succeeds, and while they are empty no protected route shows its dashboard:
\* also after a page load it ends at /login.
C8_LogoutClearsSession ==
    /\ [][Logout => LoggedOut']_vars
    /\ [][LoggedOut /\ ~AuthSucceeds => LoggedOut']_vars
    /\ [](LoggedOut => ~DashboardRendered)
    /\ (LoggedOut /\ path \in ProtectedRoutes) ~> (path = "/login")

\* Signed out, a protected URL has been loaded and the stored session looked up:
\* the route is about to redirect.
C8_Witness ==
    /\ LoggedOut
    /\ path \in ProtectedRoutes
    /\ ~authLoading

\* ------------------------------------------------------------------ admin dashboard
\* C9: in fetchDashboardData every request that fails is replaced by its default
\* (zeroed statistics, an empty list) and every request that succeeds keeps the
\* backend's response; when the call settles, the dashboard data is exactly these
\* three results, loading ends, and the dashboard error is never set.
C9_FetchFailuresAreDefaulted ==
    /\ [][\A k \in 1..MaxInFlight, r \in FetchRequests, ok \in BOOLEAN :
             ServerAnswer(k, r, ok) =>
                 adminNet'[k][r] =
                     IF ok THEN [kind |-> "response", call |-> adminNet[k].id]
                     ELSE IF r = "stats" THEN [kind |-> "zeros", call |-> 0]
                     ELSE [kind |-> "empty", call |-> 0]]_vars
    /\ [][\A k \in 1..MaxInFlight :
             FetchDashboardSettled(k) =>
                 /\ \A r \in FetchRequests : dashboardData'[r] = adminNet[k][r]
                 /\ ~adminLoading'
                 /\ adminError' = Null]_vars
    /\ [](adminError = Null)

\* The statistics request failed, the other two succeeded, and the dashboard is
\* shown with zeroed statistics next to the employees and tasks of the same call.
C9_Witness ==
    /\ AdminScreen(authLoading, userData, adminLoading, adminError) = "dashboard"
    /\ dashboardData.stats = ZeroStats
    /\ dashboardData.employees.kind = "response"
    /\ dashboardData.tasks = dashboardData.employees

\* ------------------------------------------------------------------ HTTP client
\* A call of request() has ended and this is what fetch produced for it.
Ended == apiResult.kind \in {"returned", "thrown"}

\* C10 as stated: a 2xx response returns the parsed body, and every non-2xx
\* response and every network failure throws an error whose message is the
\* message field of the backend's body.
C10_ThrowsBackendMessage ==
    Ended =>
        /\ (apiReply.kind = "response" /\ Ok(apiReply.status) /\ apiReply.body.json)
               => apiResult = [kind |-> "returned", data |-> apiReply.body, message |-> ""]
        /\ (apiReply.kind = "networkError" \/ ~Ok(apiReply.status))
               => apiResult.kind = "thrown" /\ apiResult.message = apiReply.body.message

\* C10: a 2xx response with a JSON body returns that body; a non-2xx response with
\* a JSON body throws an error with the body's message field, or 'Something went
\* wrong' when the field is missing or empty; a network failure or a body that is
\* not JSON throws the error of fetch or of the parser; no value is ever returned
\* for a non-2xx response.
C10_ThrowsMessageOrFallback ==
    Ended =>
        /\ (apiReply.kind = "response" /\ Ok(apiReply.status) /\ apiReply.body.json)
               => apiResult = [kind |-> "returned", data |-> apiReply.body, message |-> ""]
        /\ (apiReply.kind = "response" /\ ~Ok(apiReply.status) /\ apiReply.body.json)
               => /\ apiResult.kind = "thrown"
                  /\ apiResult.message =
                         IF apiReply.body.message \in {"absent", ""}
                         THEN "Something went wrong"
                         ELSE apiReply.body.message
        /\ (apiReply.kind = "networkError")
               => apiResult.kind = "thrown" /\ apiResult.message = "Failed to fetch"
        /\ (apiReply.kind = "response" /\ ~apiReply.body.json)
               => apiResult.kind = "thrown" /\ apiResult.message = "Unexpected token"
        /\ apiResult.kind = "returned"
               => apiReply.kind = "response" /\ Ok(apiReply.status)

\* A 401 whose body has no message field has ended in the generic error.
C10_Witness ==
    /\ Ended
    /\ apiReply.kind = "response" /\ apiReply.status = 401
    /\ apiReply.body = [json |-> TRUE, message |-> "absent"]
    /\ apiResult.kind = "thrown"
    /\ apiResult.message = "Something went wrong"

\* C11: every request handed to fetch carries Authorization: Bearer <token> for
\* the token held at that moment, whether or not the caller passed its own
\* headers, and carries no Authorization header when no token is held.
C11_BearerOfHeldToken ==
    [][\A endpoint \in Endpoints, options \in ApiOptions :
          ApiRequest(endpoint, options) =>
              apiSent'.headers["Authorization"] =
                  IF token = "jwt-admin" THEN "Bearer jwt-admin"
                  ELSE IF token = "jwt-employee" THEN "Bearer jwt-employee"
                  ELSE "absent"]_vars

\* A request that passed its own headers is under way with the employee's token,
\* which replaced the admin's token held before.
C11_Witness ==
    /\ apiSent.busy
    /\ apiSent.headers["X-Request"] = "1"
    /\ token = "jwt-employee"
    /\ userData = "admin"
    /\ apiSent.headers["Authorization"] = "Bearer jwt-employee"

\* ------------------------------------------------------------------ retries
\* Requests of the employee dashboard that the backend has not received yet.
Unanswered(queue) == Cardinality({k \in 1..Len(queue) : queue[k].stage = "sent"})

\* C12: a step sends at most one request, and it sends one only as the mount
\* effect of a page load, a refresh asked for by the user, an accepted prompt, or
\* the re-fetch that follows a successful update; the step that handles a failed
\* request sends nothing, so nothing is sent again until the user acts.
C12_NoAutomaticRetry ==
    [][/\ Unanswered(net') <= Unanswered(net) + 1
       /\ Unanswered(net') > Unanswered(net) =>
              \/ MountEffect
              \/ RefreshData
              \/ ConfirmOk
              \/ \E k \in 1..MaxInFlight :
                    k <= Len(net) /\ net[k].stage = "ok" /\ UpdateSettled(k)
       /\ \A k \in 1..MaxInFlight :
              (k <= Len(net) /\ net[k].stage = "fail"
                  /\ (UpdateSettled(k) \/ FetchSettled(k))) =>
                  /\ Unanswered(net') = Unanswered(net)
                  /\ Len(net') = Len(net) - 1]_vars

\* The one update that was sent has failed and nothing is in flight.
C12_Witness ==
    /\ updatesSent = 1
    /\ toastShown = "error"
    /\ net = <<>>
    /\ ~loading

SessionMatchesStorage ==
    /\ (userData # Null) <=> (loggedInUser # Null)
    /\ userData = loggedInUser

\* A login or registration call settles without success.
AuthFails ==
    \E k \in 1..MaxInFlight, outcome \in {"unsuccessful", "rejected"} :
        AuthSettled(k, outcome)

\* C14: starting with empty storage, whenever hydration is not pending the session
\* is present exactly when loggedInUser is persisted and both hold the same role;
\* a successful login or registration makes both the role of its response, a
\* failed one leaves session, persisted user and token as they were, and logout
\* empties session and persisted user.
C14_SessionPersisted ==
    /\ [](~authLoading => SessionMatchesStorage)
    /\ [][\A role \in Roles :
             (\E k \in 1..MaxInFlight : AuthSettled(k, role)) =>
                 userData' = role /\ loggedInUser' = role]_vars
    /\ [][AuthFails => UNCHANGED <<userData, loggedInUser, authToken, token>>]_vars
    /\ [][Logout => userData' = Null /\ loggedInUser' = Null]_vars

\* A registration as employee has succeeded and its session is shown its dashboard.
C14_Witness ==
    /\ alertShown = "registered"
    /\ userData = "employee"
    /\ loggedInUser = "employee"
    /\ path = "/employee/dashboard"

\* ------------------------------------------------------------------ access denied
\* C15: once hydration is over, a protected route opened with a session of
\* another role shows the "Access Denied" page.
C15_AccessDeniedOnRoleMismatch ==
    (/\ ~authLoading
     /\ path \in ProtectedRoutes
     /\ userData # Null
     /\ userData # RequiredRole(path))
        => Shown(path, userData, authLoading) = "accessDenied"

\* ------------------------------------------------------------------ C16

\* What the three forms require of their fields, in the terms of their
\* users: the date is compared with the local date.
WellFormedEmails == {<<"a", "@", "b", ".", "c">>}

FieldsValid ==
    CASE form.kind = "task" ->
            /\ form.taskTitle = <<"a">>
            /\ form.taskDescription = <<"a">>
            /\ form.category = <<"a">>
            /\ form.assignedTo # ""
            /\ form.taskDate # 0
            /\ form.taskDate >= clock.today
      [] form.kind = "register" ->
            /\ form.firstName = <<"a">>
            /\ form.email \in WellFormedEmails
            /\ Len(form.password) >= (IF form.userType = "admin" THEN 8 ELSE 6)
            /\ form.password = form.confirmPassword
            /\ form.userType = "admin" => form.adminKey = <<"a">>
      [] form.kind = "reset" ->
            /\ form.token # ""
            /\ Len(form.newPassword) >= 6
            /\ \E i \in 1 .. Len(form.newPassword) : form.newPassword[i] \in LowerCase
            /\ \E i \in 1 .. Len(form.newPassword) : form.newPassword[i] \in UpperCase
            /\ \E i \in 1 .. Len(form.newPassword) : form.newPassword[i] \in Digits
            /\ form.newPassword = form.confirmPassword
      [] OTHER -> FALSE

ErrorShown == formErrors \notin {"none", "success"}

\* C16: the task-assignment, registration and reset-password forms send
\* their request only when their fields are valid (task: non-blank title,
\* description and category, an assignee, a date not before the local date;
\* registration: non-blank name, well-formed email, password of the role's
\* minimum length equal to its confirmation, an admin key for admins;
\* reset: a URL token, a password of the policy equal to its confirmation);
\* a submission of invalid fields sends nothing and leaves an error shown.
C16_ValidatedBeforeRequest ==
    [][/\ (formSent' # "none" /\ formSent = "none") => FieldsValid
       /\ ((TaskSubmit \/ RegisterSubmit \/ ResetSubmit) /\ ~FieldsValid)
              => (formSent' = "none" /\ ErrorShown')]_vars

\* A task dated before today, otherwise valid, was submitted: the form
\* shows its error and no request is in flight.
C16_Witness ==
    /\ form.kind = "task"
    /\ form.taskDate # 0
    /\ form.taskDate < clock.today
    /\ validateFormNoPast(form, clock) = {}
    /\ ~form.editingTask
    /\ formErrors = "inline"
    /\ formSent = "none"

\* ------------------------------------------------------------------ C17

\* C17: an on-demand refresh of the employee dashboard re-fetches the
\* employee profile: the step of refreshData leaves a profile request on
\* its way to the backend and the dashboard mounted to receive it, whether
\* or not the dashboard was given the session profile as its data prop.
C17_RefreshRefetches ==
    [][RefreshData =>
          /\ mounted'
          /\ \E k \in 1 .. Len(net') : net'[k].kind = "fetch" /\ net'[k].stage = "sent"]_vars

\* ------------------------------------------------------------------ C18

\* The /api root of a backend, under which the endpoints of the service lie.
ApiRoot(backend) ==
    IF backend = "http://localhost:5000"
        THEN "http://localhost:5000/api"
        ELSE "https://emsbackend-92zu.onrender.com/api"

\* C18: every request made through the API service of the application is
\* sent to the backend that VITE_API_BASE_URL names, when it is set.
C18_UsesConfiguredBackend ==
    (apiSent.busy /\ VITE_API_BASE_URL # Undefined)
        => apiSent.url[1] = ApiRoot(config_API_BASE_URL(VITE_API_BASE_URL))

\* ------------------------------------------------------------------ C19

\* C19: every toast shown through the toast service is eventually removed
\* from the list of toasts, whatever renders and other toasts come meanwhile.
C19_ToastsAutoDismiss ==
    \A id \in ToastIds : (id \in Listed(toasts)) ~> (id \notin Listed(toasts))

\* ------------------------------------------------------------------ C20

\* The flags of a body that are true.
TrueFlags(body) == {s \in Statuses : body[s]}

\* C20: for every target status the body that handleTaskStatusUpdate builds
\* has exactly one of the four flags true, the flag of the target, and
\* every update request on its way to the backend carries such a body for
\* its own target.
C20_BodyIsOneHot ==
    /\ \A s \in Statuses : TrueFlags(StatusUpdate(s)) = {s}
    /\ \A k \in 1 .. Len(net) :
           net[k].kind = "update" => TrueFlags(net[k].body) = {net[k].newStatus}

\* An update to "failed" is on its way with its body.
C20_Witness ==
    \E k \in 1 .. Len(net) :
        /\ net[k].kind = "update"
        /\ net[k].stage = "sent"
        /\ net[k].newStatus = "failed"
        /\ net[k].body.failed

\* ------------------------------------------------------------------ C21

\* C21: after a login attempt that fails (an unsuccessful response or a
\* rejected request) the entered email and password are still in the form.
C21_FailedLoginKeepsFields ==
    [][(\E outcome \in {"unsuccessful", "rejected"} : SubmitSettled(outcome))
          => (login'.email = login.email /\ login'.password = login.password)]_vars

\* ------------------------------------------------------------------ C22

\* The Promise.all of handleBulkDelete settles in this step.
BatchSettles == batch.awaiting /\ ~batch'.awaiting

\* Every delete request of the batch succeeded.
AllDeleted(calls) == \A id \in ItemIds : calls[id] \in {"none", "ok"}

\* C22: a bulk delete empties the selection and issues a dashboard refresh
\* only when every delete request of the batch succeeded; when one fails
\* no refresh is issued and the selection is left as it is, also when other
\* requests of the batch succeeded on the backend.
C22_BulkDeleteAllOrNothing ==
    [][/\ BatchSettles =>
             IF AllDeleted(batch'.calls)
                THEN bulk'.selected = {} /\ bulk'.refreshes = bulk.refreshes + 1
                ELSE bulk'.selected = bulk.selected /\ bulk'.refreshes = bulk.refreshes
       /\ bulk'.refreshes # bulk.refreshes => (BatchSettles /\ AllDeleted(batch'.calls))]_vars

\* A batch failed after one of its requests had deleted its item: nothing
\* was refreshed and the selection still holds the deleted item.
C22_Witness ==
    /\ ~batch.awaiting
    /\ \E id \in ItemIds : batch.calls[id] = "fail"
    /\ \E id \in ItemIds : batch.calls[id] = "ok" /\ id \notin items /\ id \in bulk.selected
    /\ bulk.refreshes = 0
    /\ ~bulk.loading

\* ------------------------------------------------------------------ C23

\* A confirmed transition is under way: its update request, or the
\* re-fetch that follows it, has not settled.
Updating ==
    \E k \in 1 .. Len(net) :
        net[k].kind = "update" \/ (net[k].kind = "fetch" /\ net[k].cont = "afterUpdate")

\* C23: from the moment a transition is confirmed until its update and the
\* re-fetch after it have settled, that request is the only one in flight,
\* the loading flag is true, and the transition buttons and the refresh
\* button are disabled.
C23_OneUpdateAtATime ==
    Updating =>
        /\ Len(net) = 1
        /\ loading
        /\ ~BoardUsable
        /\ Screen(loading, error, employeeData) \notin {"errorPage", "noData"}

\* The update has succeeded and its re-fetch is on its way, loading still true.
C23_Witness ==
    /\ Len(net) = 1
    /\ net[1].kind = "fetch"
    /\ net[1].cont = "afterUpdate"
    /\ net[1].stage = "sent"
    /\ loading
    /\ updatesSent = 1

\* ------------------------------------------------------------------ C24

\* No fetchDashboardData call is in flight.
FetchesSettled == \A k \in 1 .. Len(adminNet) : adminNet[k].kind # "fetch"

\* C24: when all the refreshes of the admin dashboard have settled, what
\* the dashboard holds of backend responses comes from the refresh that was
\* started last, never from an earlier one.
C24_LastRefreshWins ==
    FetchesSettled =>
        \A r \in FetchRequests :
            dashboardData[r].kind = "response" => dashboardData[r].call = fetchesStarted

\* ------------------------------------------------------------------ C25

\* C25: the loading flag of the admin dashboard is true whenever a
\* fetchDashboardData call is in flight, so the dashboard is not rendered
\* while a refresh is pending.
C25_LoadingWhileFetching ==
    ~FetchesSettled =>
        /\ adminLoading
        /\ AdminScreen(authLoading, userData, adminLoading, adminError) # "dashboard"

\* ------------------------------------------------------------------ C26

\* A loading flag of the component that is followed is true (the flags of
\* the others keep their initial values).
SomeLoading ==
    \/ login.isLoading
    \/ loading
    \/ Following("admin") /\ adminLoading
    \/ formLoading
    \/ bulk.loading

\* C26: when every request is answered, each loading flag that was set
\* (login form, employee dashboard, the mounted admin dashboard, the forms'
\* and the bulk delete's) is eventually false again.
C26_LoadingEnds == SomeLoading ~> ~SomeLoading

\* A bulk delete has failed and its loading flag is false again while a
\* request of the batch is still on its way.
C26_Witness ==
    /\ ~bulk.loading
    /\ bulk.batches = 1
    /\ bulk.alert = NotDeleted(bulk.kind)
    /\ stale # {}

C28_RedirectsEndOnContent ==
    Settled =>
        IF userData = Null
        THEN Shown(path, userData, authLoading) = "form"
        ELSE /\ Shown(path, userData, authLoading) = "dashboard"
             /\ RequiredRole(path) = userData

====
